---- MODULE Spec2Model ----
(***************************************************************************)
(* Model of the agent-memory framework of persistent-team:                 *)
(*   agent_framework/agent.py   Agent: bind, recall, learn, save_state     *)
(*   jobs/refactorer/agent.py   phase-aware pipeline workers               *)
(* Python dicts are functions whose DOMAIN is the set of keys present;     *)
(* Python lists are sequences.                                             *)
(***************************************************************************)
EXTENDS Integers, Sequences, FiniteSets, TLC

VARIABLES
    team,         \* the loaded document (dict): top-level fields and "agents"
    name,         \* self.name of the live worker object, None before any bind
    engine,       \* self.engine
    runLessons,   \* self._run_lessons, the invocation-local buffer
    result,       \* outcome of the last call: its return value or the error raised
    clock,        \* datetime.now(), as a logical clock
    learned,      \* history: per worker, every lesson passed to learn(), in order
    saves,        \* history: number of save_state() calls on the live worker object
    atBind,       \* history: the document as it was when the live object was bound
    call,         \* the arguments of the factory or scraper call made, if any,
                  \* and the requests it sent
    newTeam,      \* the document create_team returned, <<>> before the call
    aliased,      \* whether newTeam shares mutable objects with the source
    hookCalls,    \* history: _apply_experience() calls made by the last call
    files,        \* the file system: path -> content of the file at that path
    procs         \* the caller processes that load and save the document

factoryVars == <<call, newTeam, aliased>>

ioVars == <<files, procs>>

vars == <<team, name, engine, runLessons, result, clock, learned, saves, atBind,
          call, newTeam, aliased, hookCalls, files, procs>>

----------------------------------------------------------------------------
(* Bounds of the model *)

MaxM == 3          \* largest configured max_lessons that is drawn
MaxLearn == 5      \* learn() calls over a whole behaviour
MaxRuns == 3       \* save_state() calls over a whole behaviour
MaxPhaseRuns == 1  \* non-blocked run() calls of one pipeline phase
MaxDeposits == 1   \* learn() calls over a whole pipeline behaviour
MaxCloneRuns == 1  \* save_state() calls of one worker of a clone
MaxSaves == 1      \* save_team() calls of one process
MaxTicks == 1      \* seconds that pass over a whole behaviour

(* Program constants *)

DefaultMaxLessons == 100

----------------------------------------------------------------------------
(* Python values *)

None == "__None__"
EmptyDict == <<>>

Min(a, b) == IF a < b THEN a ELSE b
Max(a, b) == IF a > b THEN a ELSE b

\* d.get(k, default)
Get(d, k, default) == IF k \in DOMAIN d THEN d[k] ELSE default

\* d[k] = v
Put(d, k, v) == [x \in (DOMAIN d) \cup {k} |-> IF x = k THEN v ELSE d[x]]

\* truthiness of a str-or-None value:  `if x:`
Truthy(x) == x /= None /\ x /= ""

\* s[i:] for a list s and an int i
SliceFrom(s, i) ==
    LET start == IF i < 0 THEN Max(Len(s) + i, 0) ELSE Min(i, Len(s))
    IN  SubSeq(s, start + 1, Len(s))

\* [l for l in s if P(l)]
RECURSIVE SelectCat(_, _)
SelectCat(s, cats) ==
    IF s = <<>> THEN <<>>
    ELSE LET rest == SelectCat(Tail(s), cats)
         IN  IF Get(Head(s), "category", None) \in cats
             THEN <<Head(s)>> \o rest ELSE rest

----------------------------------------------------------------------------
(* The document *)

Workers == {"scout", "parser"}
Invoked == {"scout"}          \* the workers the behaviours invoke
UnknownWorker == "ghost"
Categories == {"dead_url", "regression"}

Agents == team["agents"]
State(w) == Agents[w]                       \* self.state
Config(w) == Agents[w]["config"]            \* self.config
Experience(w) == Agents[w]["experience"]    \* self.experience

\* the document with self.experience of worker w replaced by exp
WithExperience_EveryWorker(t, w, exp) ==
    [t EXCEPT !["agents"] =
        [x \in DOMAIN @ |-> [@[x] EXCEPT !["experience"] = exp]]]

WithExperience(t, w, exp) ==
    [t EXCEPT !["agents"] = [@ EXCEPT ![w] = [@ EXCEPT !["experience"] = exp]]]

Lessons(w) == Get(Experience(w), "lessons_learned", <<>>)
RunCount(w) == Get(Experience(w), "run_count", 0)

RECURSIVE SumRuns(_)
SumRuns(ws) ==
    IF ws = {} THEN 0
    ELSE LET w == CHOOSE x \in ws : TRUE
         IN  RunCount(w) + SumRuns(ws \ {w})

\* outcome of a call: the method, its first argument, "ok" or the error
\* raised, and the list returned (<<>> when the call returns no list)
Ret(op, arg, status, value) ==
    [op |-> op, arg |-> arg, status |-> status, value |-> value]

----------------------------------------------------------------------------
(* Agent.__init__ : bind a worker object to team["agents"][name] *)

lookup_Setdefault(t, n) ==
    [found |-> TRUE,
     team |-> IF n \in DOMAIN t["agents"] THEN t
              ELSE [t EXCEPT !["agents"] =
                      Put(@, n, [role |-> "", config |-> EmptyDict,
                                 experience |-> EmptyDict])]]

\* self.state = team["agents"][name]: the lookup raises KeyError for a
\* missing key and never writes to the document.
lookup(t, n) == [found |-> n \in DOMAIN t["agents"], team |-> t]

BindEngines == {None}

Bind(n, e) ==
    LET l == lookup(team, n)
    IN  /\ team' = l.team
        /\ IF l.found
           THEN /\ name' = n
                /\ engine' = e
                /\ runLessons' = <<>>
                /\ saves' = 0
                /\ atBind' = l.team
                /\ result' = Ret("bind", n, "ok", <<>>)
           ELSE /\ result' = Ret("bind", n, "KeyError", <<>>)
                /\ UNCHANGED <<name, engine, runLessons, saves, atBind>>
        /\ UNCHANGED <<clock, learned>>
        /\ UNCHANGED <<factoryVars, ioVars>>
        /\ hookCalls' = 0

----------------------------------------------------------------------------
(* Agent.recall *)

recall_Setdefault(exp, category) ==
    LET exp1 == IF "lessons_learned" \notin DOMAIN exp
                THEN Put(exp, "lessons_learned", <<>>) ELSE exp
        lessons == exp1["lessons_learned"]
    IN  [value |-> IF Truthy(category)
                   THEN SelectCat(lessons, {category})
                   ELSE lessons,
         experience |-> exp1]

\* the value returned and the experience dict as recall leaves it
recall(exp, category) ==
    LET lessons == Get(exp, "lessons_learned", <<>>)
    IN  [value |-> IF Truthy(category)
                   THEN SelectCat(lessons, {category})
                   ELSE lessons,
         experience |-> exp]

RecallArgs == Categories \cup {"", None}

Recall(category) ==
    /\ name /= None
    /\ LET r == recall(Experience(name), category)
       IN  /\ result' = Ret("recall", category, "ok", r.value)
           /\ team' = WithExperience(team, name, r.experience)
    /\ UNCHANGED <<name, engine, runLessons, clock, learned, saves, atBind>>
    /\ UNCHANGED <<factoryVars, ioVars>>
    /\ hookCalls' = 0

----------------------------------------------------------------------------
(* Agent.learn *)

Problems == {"p"}
Solutions == {"s"}
Contexts == {None}
LearnEngines == {None}

Lesson(now, category, problem, solution, context, eng, selfEngine) ==
    LET base == [timestamp |-> now, category |-> category,
                 problem |-> problem, solution |-> solution]
        withContext == IF context /= None THEN Put(base, "context", context)
                       ELSE base
        effective_engine == IF Truthy(eng) THEN eng ELSE selfEngine
    IN  IF Truthy(effective_engine)
        THEN Put(withContext, "engine", effective_engine)
        ELSE withContext

learn_Unbuffered(buffer, exp, lesson) ==
    [buffer |-> buffer,
     experience |-> Put(exp, "lessons_learned",
                        Append(Get(exp, "lessons_learned", <<>>), lesson))]

\* the buffer and the experience dict as learn leaves them
learn(buffer, exp, lesson) ==
    [buffer |-> Append(buffer, lesson), experience |-> exp]

Learn(category, problem, solution, context, eng) ==
    /\ name /= None
    /\ clock < MaxLearn
    /\ LET lesson == Lesson(clock + 1, category, problem, solution,
                            context, eng, engine)
           r == learn(runLessons, Experience(name), lesson)
       IN  /\ runLessons' = r.buffer
           /\ team' = WithExperience(team, name, r.experience)
           /\ learned' = [learned EXCEPT ![name] = Append(@, lesson)]
    /\ clock' = clock + 1
    /\ result' = Ret("learn", category, "ok", <<>>)
    /\ UNCHANGED <<name, engine, saves, atBind>>
    /\ UNCHANGED <<factoryVars, ioVars>>
    /\ hookCalls' = 0

----------------------------------------------------------------------------
(* Agent.save_state *)

\* lines 99-102: create the list when missing, then extend it by the buffer
extend_lessons(exp, buffer) ==
    LET exp1 == IF "lessons_learned" \notin DOMAIN exp
                THEN Put(exp, "lessons_learned", <<>>) ELSE exp
    IN  Put(exp1, "lessons_learned", exp1["lessons_learned"] \o buffer)

\* lines 104-108: trim to the most recent max_lessons
trim_lessons(exp, config) ==
    LET max_lessons == Get(config, "max_lessons", DefaultMaxLessons)
        lessons == exp["lessons_learned"]
    IN  IF Len(lessons) > max_lessons
        THEN Put(exp, "lessons_learned", SliceFrom(lessons, 0 - max_lessons))
        ELSE exp

count_run_FromOne(exp) ==
    Put(exp, "run_count", Get(exp, "run_count", 1) + 1)

\* lines 110-111: count the run
count_run(exp) ==
    Put(exp, "run_count", Get(exp, "run_count", 0) + 1)

save_state_ClearsBuffer(exp, config, buffer) ==
    [experience |-> count_run(trim_lessons(extend_lessons(exp, buffer), config)),
     buffer |-> <<>>]

\* the experience dict and the buffer as save_state leaves them
save_state(exp, config, buffer) ==
    [experience |-> count_run(trim_lessons(extend_lessons(exp, buffer), config)),
     buffer |-> buffer]

SaveState ==
    /\ name /= None
    /\ SumRuns(DOMAIN Agents) < MaxRuns
    /\ LET r == save_state(Experience(name), Config(name), runLessons)
       IN  /\ team' = WithExperience(team, name, r.experience)
           /\ runLessons' = r.buffer
    /\ saves' = saves + 1
    /\ result' = Ret("save_state", None, "ok", <<>>)
    /\ UNCHANGED <<name, engine, clock, learned, atBind>>
    /\ UNCHANGED <<factoryVars, ioVars>>
    /\ hookCalls' = 0

----------------------------------------------------------------------------
(* Initial documents *)

MaxLessonsConfigs ==
    {EmptyDict} \cup {[max_lessons |-> m] : m \in 0..MaxM}

FreshExperiences ==
    {EmptyDict, [lessons_learned |-> <<>>, run_count |-> 0]}

ParserLesson ==
    [timestamp |-> 0, category |-> "regression", problem |-> "p",
     solution |-> "s"]

InitTeams ==
    {[project_id |-> "demo",
      universal_knowledge |-> [x |-> 1],
      agents |-> [w \in Workers |->
         IF w = "scout"
         THEN [role |-> "scout", config |-> c, experience |-> x]
         ELSE [role |-> "parser", config |-> [max_lessons |-> 1],
               experience |-> [lessons_learned |-> <<ParserLesson>>,
                               run_count |-> 1]]]]
     : c \in MaxLessonsConfigs, x \in FreshExperiences}

InitWorker ==
    /\ name = None
    /\ engine = None
    /\ runLessons = <<>>
    /\ result = Ret("none", None, "ok", <<>>)
    /\ clock = 0
    /\ saves = 0
    /\ atBind = team
    /\ call = [made |-> FALSE]
    /\ newTeam = EmptyDict
    /\ aliased = FALSE
    /\ hookCalls = 0
    /\ files = EmptyDict
    /\ procs = EmptyDict

Init ==
    /\ team \in InitTeams
    /\ learned = [w \in Workers |-> <<>>]
    /\ InitWorker

----------------------------------------------------------------------------
(* Spec: the documented lifecycle.  Every invocation binds a fresh worker  *)
(* object, calls recall() and learn() any number of times and then         *)
(* save_state() exactly once; the next invocation starts after the save.   *)

NewInvocation ==
    /\ name = None \/ saves = 1
    /\ \E n \in Invoked \cup {UnknownWorker}, e \in BindEngines : Bind(n, e)

DoRecall == \E c \in RecallArgs : Recall(c)

DoLearn ==
    /\ saves = 0
    /\ \E c \in Categories, p \in Problems, s \in Solutions,
          x \in Contexts, e \in LearnEngines : Learn(c, p, s, x, e)

SaveOnce == saves = 0 /\ SaveState

Next == NewInvocation \/ DoRecall \/ DoLearn \/ SaveOnce

Spec == Init /\ [][Next]_vars

----------------------------------------------------------------------------
(* SpecFree: the same operations called in any order on the live object,   *)
(* including save_state() more than once and rebinding without saving.     *)

AnyBind == \E n \in Invoked \cup {UnknownWorker}, e \in BindEngines : Bind(n, e)

FreeCategories == {"dead_url"}

AnyLearn ==
    \E c \in FreeCategories, p \in Problems, s \in Solutions,
       x \in Contexts, e \in LearnEngines : Learn(c, p, s, x, e)

NextFree == AnyBind \/ DoRecall \/ AnyLearn \/ SaveState

SpecFree == Init /\ [][NextFree]_vars

----------------------------------------------------------------------------
(* jobs/refactorer/agent.py : phase-aware pipeline workers *)

Phases == <<"auditor", "db_architect", "backend_splitter",
            "frontend_splitter", "cleanup">>
PipelineWorkers == {Phases[i] : i \in 1..Len(Phases)}

\* the class the caller instantiates for each worker name
ClassOf ==
    [auditor |-> "AuditorAgent", db_architect |-> "DbArchitectAgent",
     backend_splitter |-> "BackendSplitterAgent",
     frontend_splitter |-> "FrontendSplitterAgent",
     cleanup |-> "CleanupAgent"]

_check_dependency_MissingStatusPasses(t, config) ==
    LET dep == Get(config, "depends_on", None)
    IN  IF Truthy(dep) /\ dep \in DOMAIN t["agents"]
        THEN LET dep_status == Get(t["agents"][dep]["experience"], "status", None)
             IN  dep_status = None \/ dep_status = "complete"
        ELSE TRUE

\* RefactorerBase._check_dependency
_check_dependency(t, config) ==
    LET dep == Get(config, "depends_on", None)
    IN  IF Truthy(dep) /\ dep \in DOMAIN t["agents"]
        THEN LET dep_status == Get(t["agents"][dep]["experience"], "status", None)
             IN  dep_status = "complete"
        ELSE TRUE

\* RefactorerBase._recall_by_types
RECURSIVE RecallFrom(_, _, _)
RecallFrom(t, ws, cats) ==
    IF ws = <<>> THEN <<>>
    ELSE SelectCat(Get(Get(t["agents"][Head(ws)], "experience", EmptyDict),
                       "lessons_learned", <<>>), cats)
         \o RecallFrom(t, Tail(ws), cats)

\* dict order of team["agents"]: the order the workers are listed in
AgentOrder(t) == SelectSeq(Phases, LAMBDA w : w \in DOMAIN t["agents"])

_recall_by_types_AuditorOnly(t, config) ==
    LET recall_types == Get(config, "recall_types", {})
    IN  IF recall_types = {} THEN <<>>
        ELSE RecallFrom(t, SubSeq(AgentOrder(t), 1, 1), recall_types)

_recall_by_types(t, config) ==
    LET recall_types == Get(config, "recall_types", {})
    IN  IF recall_types = {} THEN <<>>
        ELSE RecallFrom(t, AgentOrder(t), recall_types)

\* RefactorerBase._mark_complete
_mark_complete(exp, now) ==
    Put(Put(exp, "status", "complete"), "completed_at", now)

MarkComplete ==
    /\ name \in PipelineWorkers
    /\ team' = WithExperience(team, name, _mark_complete(Experience(name), clock))
    /\ result' = Ret("_mark_complete", None, "ok", <<>>)
    /\ UNCHANGED <<name, engine, runLessons, clock, learned, saves, atBind>>
    /\ UNCHANGED <<factoryVars, ioVars>>
    /\ hookCalls' = 0

\* the part of run() after the dependency check, common to every phase:
\* _apply_experience and the reads of the auditor's deposits write nothing,
\* then save_state() is called and the result returned
Work(status, value) ==
    /\ LET r == save_state(Experience(name), Config(name), runLessons)
       IN  /\ team' = WithExperience(team, name, r.experience)
           /\ runLessons' = r.buffer
    /\ saves' = saves + 1
    /\ result' = Ret("run", name, status, value)
    /\ UNCHANGED <<name, engine, clock, learned, atBind>>
    /\ UNCHANGED <<factoryVars, ioVars>>

Blocked_SavesState == Work("blocked", <<>>) /\ hookCalls' = 0

\* the return of run() when _check_dependency() is false
Blocked ==
    /\ result' = Ret("run", name, "blocked", <<>>)
    /\ UNCHANGED <<team, name, engine, runLessons, clock, learned, saves, atBind>>
    /\ UNCHANGED <<factoryVars, ioVars>>
    /\ hookCalls' = 0

\* AuditorAgent.run
AuditorRun ==
    /\ name /= None /\ ClassOf[name] = "AuditorAgent"
    /\ RunCount(name) < MaxPhaseRuns
    /\ Work("ready_for_deposits", <<>>)
    /\ hookCalls' = 1

\* DbArchitectAgent.run
DbArchitectRun ==
    /\ name /= None /\ ClassOf[name] = "DbArchitectAgent"
    /\ RunCount(name) < MaxPhaseRuns
    /\ IF ~_check_dependency(team, Config(name))
       THEN Blocked
       ELSE Work("ready",
                 _recall_by_types(
                     WithExperience(team, name,
                         save_state(Experience(name), Config(name),
                                    runLessons).experience),
                     Config(name)))
            /\ hookCalls' = 1

\* BackendSplitterAgent.run
BackendSplitterRun ==
    /\ name /= None /\ ClassOf[name] = "BackendSplitterAgent"
    /\ RunCount(name) < MaxPhaseRuns
    /\ IF ~_check_dependency(team, Config(name))
       THEN Blocked
       ELSE Work("ready", <<>>) /\ hookCalls' = 1

\* FrontendSplitterAgent.run
FrontendSplitterRun ==
    /\ name /= None /\ ClassOf[name] = "FrontendSplitterAgent"
    /\ RunCount(name) < MaxPhaseRuns
    /\ IF ~_check_dependency(team, Config(name))
       THEN Blocked
       ELSE Work("ready", <<>>) /\ hookCalls' = 1

\* CleanupAgent.run
CleanupRun ==
    /\ name /= None /\ ClassOf[name] = "CleanupAgent"
    /\ RunCount(name) < MaxPhaseRuns
    /\ IF ~_check_dependency(team, Config(name))
       THEN Blocked
       ELSE Work("ready", <<>>) /\ hookCalls' = 0

----------------------------------------------------------------------------
(* SpecPipeline: a pipeline document whose phases are invoked in any       *)
(* order.  An invocation binds the phase's worker, may deposit lessons,    *)
(* calls run() (again after a blocked result, if it likes) and, once run() *)
(* has done its work, may mark the phase complete.                         *)

Pred == [db_architect |-> "auditor", backend_splitter |-> "db_architect",
         frontend_splitter |-> "backend_splitter",
         cleanup |-> "frontend_splitter"]

\* the documented pipeline configuration
PipelineConfig(w) ==
    IF w = "auditor" THEN [source_path |-> "."]
    ELSE [depends_on |-> Pred[w], recall_types |-> {"data_flow"}]

\* the same with one phase naming a worker the document does not have, or
\* declaring no predecessor at all
PipelineConfigs ==
    {[w \in PipelineWorkers |-> PipelineConfig(w)]}
    \cup {[w \in PipelineWorkers |->
             IF w = m THEN [depends_on |-> UnknownWorker, recall_types |-> {"data_flow"}]
             ELSE PipelineConfig(w)] : m \in {"db_architect", "cleanup"}}
    \cup {[w \in PipelineWorkers |->
             IF w = m THEN [recall_types |-> {"data_flow"}]
             ELSE PipelineConfig(w)] : m \in {"backend_splitter"}}

PipelineTeams ==
    {[project_id |-> "demo",
      universal_knowledge |-> [x |-> 1],
      agents |-> [w \in PipelineWorkers |->
                     [role |-> w, config |-> c[w], experience |-> EmptyDict]]]
     : c \in PipelineConfigs}

InitPipeline ==
    /\ team \in PipelineTeams
    /\ learned = [w \in PipelineWorkers |-> <<>>]
    /\ InitWorker

PipelineCategories == {"data_flow"}

BindPhase ==
    /\ name = None \/ result["op"] \in {"run", "_mark_complete"}
    /\ \E n \in PipelineWorkers \cup {UnknownWorker}, e \in BindEngines : Bind(n, e)

Deposit ==
    /\ saves = 0
    /\ clock < MaxDeposits
    /\ \E c \in PipelineCategories, p \in Problems, s \in Solutions,
          x \in Contexts, e \in LearnEngines : Learn(c, p, s, x, e)

PhaseDone == saves = 1 /\ MarkComplete

RunAuditor == saves = 0 /\ AuditorRun
RunDbArchitect == saves = 0 /\ DbArchitectRun
RunBackendSplitter == saves = 0 /\ BackendSplitterRun
RunFrontendSplitter == saves = 0 /\ FrontendSplitterRun
RunCleanup == saves = 0 /\ CleanupRun

NextPipeline ==
    \/ BindPhase
    \/ Deposit
    \/ PhaseDone
    \/ RunAuditor
    \/ RunDbArchitect
    \/ RunBackendSplitter
    \/ RunFrontendSplitter
    \/ RunCleanup

SpecPipeline == InitPipeline /\ [][NextPipeline]_vars

----------------------------------------------------------------------------
(* Vocabulary of the properties *)

\* the configured cap of worker w
MaxLessonsOf(w) == Get(Config(w), "max_lessons", DefaultMaxLessons)

\* the last n elements of s
LastN(s, n) == SubSeq(s, Len(s) - n + 1, Len(s))

IsSuffix(s, t) == Len(s) <= Len(t) /\ s = LastN(t, Len(s))

\* the lessons of s whose category is c, in the order of s
OfCategory(s, c) == SelectSeq(s, LAMBDA l : l["category"] = c)

\* the live worker's stored lessons and run count when it was bound
LessonsAtBind == Get(atBind["agents"][name]["experience"], "lessons_learned", <<>>)
RunCountAtBind == Get(atBind["agents"][name]["experience"], "run_count", 0)

Saved == name /= None /\ saves = 1

----------------------------------------------------------------------------
(* C1: bounded memory.  In the documented lifecycle, after every           *)
(* save_state() the number of stored lessons of the worker equals          *)
(* min(total lessons it has learned so far, max_lessons), for every        *)
(* max_lessons >= 0.  Stated as the claim states it; the code violates it  *)
(* for max_lessons = 0.                                                    *)
C1_BoundedMemory ==
    Saved => Len(Lessons(name)) = Min(Len(learned[name]), MaxLessonsOf(name))

(* C2: FIFO retention.  After every save_state() the stored lessons are    *)
(* exactly the most recently learned min(total, max_lessons) lessons, in   *)
(* the order learned and unmodified.  Stated as the claim states it; the   *)
(* code violates it for max_lessons = 0.                                   *)
C2_FifoRetention ==
    Saved => Lessons(name) =
             LastN(learned[name], Min(Len(learned[name]), MaxLessonsOf(name)))

(* C3: run count.  A save_state() call raises run_count by exactly one (a  *)
(* missing run_count counting as 0), so an invocation with one save ends   *)
(* at run_count before + 1 whatever it learned, and no operation ever      *)
(* lowers any worker's run_count.                                          *)
C3_RunCount ==
    /\ [](Saved => RunCount(name) = RunCountAtBind + 1)
    /\ [][ /\ (saves' = saves + 1 => RunCount(name)' = RunCount(name) + 1)
           /\ \A w \in DOMAIN Agents : RunCount(w)' >= RunCount(w) ]_vars

C3_Witness ==
    /\ Saved
    /\ runLessons = <<>>
    /\ "run_count" \notin DOMAIN atBind["agents"][name]["experience"]
    /\ RunCount(name) = 1

(* C4: save_state() is not idempotent.  No save clears the buffer, and the *)
(* second save_state() call on the same worker object leaves run_count 2   *)
(* above its value at bind and the lessons buffered before the first save  *)
(* appended twice: the stored list is the tail (the whole, when it fits    *)
(* max_lessons) of  before-bind ++ buffer-at-first-save ++ buffer-now.     *)
C4_SaveTwice ==
    [][saves' = saves + 1 =>
         /\ runLessons' = runLessons
         /\ (saves = 1 =>
               /\ RunCount(name)' = RunCountAtBind + 2
               /\ \E k \in 0..Len(runLessons) :
                    LET full == LessonsAtBind \o SubSeq(runLessons, 1, k)
                                              \o runLessons
                    IN  /\ IsSuffix(Lessons(name)', full)
                        /\ Len(Lessons(name)') >=
                              Min(Len(full), MaxLessonsOf(name)))]_vars

C4_Witness ==
    /\ name /= None /\ saves = 2
    /\ runLessons /= <<>>
    /\ Lessons(name) = runLessons \o runLessons

(* C5: recall filter.  recall(C) returns exactly the stored lessons whose  *)
(* category equals C, in order, for every string C; recall() returns the   *)
(* whole stored list.  Stated as the claim states it; the code violates it *)
(* for C = "".                                                             *)
C5_RecallFilter ==
    result["op"] = "recall" =>
        result["value"] = IF result["arg"] = None THEN Lessons(name)
                          ELSE OfCategory(Lessons(name), result["arg"])

(* C6: recall never mutates and never fails.  A recall step leaves the     *)
(* document and the buffer unchanged and returns normally; when            *)
(* experience has no lessons_learned key it returns the empty list and     *)
(* the key is still absent afterwards.                                     *)
C6_RecallPure ==
    [][result'["op"] = "recall" =>
         /\ team' = team
         /\ runLessons' = runLessons
         /\ result'["status"] = "ok"
         /\ ("lessons_learned" \notin DOMAIN Experience(name) =>
                /\ result'["value"] = <<>>
                /\ "lessons_learned" \notin DOMAIN Experience(name)')]_vars

C6_Witness ==
    /\ result["op"] = "recall"
    /\ "lessons_learned" \notin DOMAIN Experience(name)
    /\ runLessons /= <<>>

(* C7: learn is buffered.  Between bind and save_state() the document is   *)
(* identical to the document at bind whatever was learned; every learn()   *)
(* appends exactly one lesson, the one just learned, to the buffer; and    *)
(* after the save the buffered lessons are the tail of the stored list.    *)
C7_LearnBuffered ==
    /\ [](name /= None /\ saves = 0 => team = atBind)
    /\ [](Saved /\ Len(LessonsAtBind) + Len(runLessons) <= MaxLessonsOf(name)
            => Lessons(name) = LessonsAtBind \o runLessons)
    /\ [][clock' = clock + 1 =>
            /\ team' = team
            /\ runLessons' = Append(runLessons, learned'[name][Len(learned'[name])])
            /\ recall(Experience(name)', None) = recall(Experience(name), None)]_vars

C7_Witness ==
    /\ name /= None /\ saves = 0
    /\ Len(runLessons) >= 2
    /\ Lessons(name) /= <<>>
    /\ team = atBind

(* C8: binding an unknown name.  Binding to a name that is not a key of    *)
(* agents raises an error, leaves the document unchanged and creates no    *)
(* record for that name.                                                   *)
C8_BindUnknown ==
    [][result'["op"] = "bind" /\ result'["arg"] \notin DOMAIN Agents =>
         /\ result'["status"] = "KeyError"
         /\ team' = team
         /\ result'["arg"] \notin DOMAIN Agents']_vars

C8_Witness ==
    /\ result["op"] = "bind"
    /\ result["status"] = "KeyError"
    /\ result["arg"] \notin DOMAIN Agents
    /\ clock > 0

\* the predecessor the live worker's config declares
DependsOn == Get(Config(name), "depends_on", None)

\* status of worker w, None when it has no status field
StatusOf(w) == Get(Agents[w]["experience"], "status", None)

(* C9: dependency gating.  Whenever run() is called on a phase worker      *)
(* whose declared predecessor is a worker of the document with             *)
(* experience.status other than "complete", or with no status at all, the  *)
(* result is "blocked" and the worker's own experience is identical        *)
(* before and after the call.                                              *)
C9_BlockedNoMutation ==
    [][ /\ result'["op"] = "run"
        /\ DependsOn \in DOMAIN Agents
        /\ StatusOf(DependsOn) /= "complete"
        => /\ result'["status"] = "blocked"
           /\ Experience(name)' = Experience(name) ]_vars

C9_Witness ==
    /\ result["op"] = "run"
    /\ result["status"] = "blocked"
    /\ runLessons /= <<>>
    /\ DependsOn \in DOMAIN Agents
    /\ "status" \notin DOMAIN Agents[DependsOn]["experience"]
    /\ RunCount(DependsOn) = 1

(* C10: a phase worker whose config declares depends_on = P returns a      *)
(* non-blocked result only if agents[P].experience.status is exactly       *)
(* "complete" at the time of the call.  Stated as the claim states it; the *)
(* code lets the worker run when P is not a worker of the document.        *)
C10_RunsOnlyIfComplete ==
    [][ /\ result'["op"] = "run"
        /\ "depends_on" \in DOMAIN Config(name)
        /\ result'["status"] /= "blocked"
        => /\ DependsOn \in DOMAIN Agents
           /\ StatusOf(DependsOn) = "complete" ]_vars

(* C11: completion signal.  After every successful non-blocked run() of a  *)
(* phase-aware pipeline worker, that worker's experience.status equals     *)
(* "complete" and experience.completed_at holds a timestamp.  Stated as    *)
(* the claim states it; no run() of the pipeline calls _mark_complete.     *)
C11_CompleteAfterRun ==
    [][ /\ result'["op"] = "run"
        /\ result'["status"] /= "blocked"
        => /\ Get(Experience(name)', "status", None) = "complete"
           /\ "completed_at" \in DOMAIN Experience(name)' ]_vars

----------------------------------------------------------------------------
(* The pipeline driven as the module docstring of jobs/refactorer shows:   *)
(* one worker object per phase, in declared order, run() and nothing else  *)
(* writing to the document.                                                *)

\* refactorer/agent.py docstring, lines 18-27: the fresh team document
OrderedTeam ==
    [project_id |-> "demo",
     universal_knowledge |-> [x |-> 1],
     agents |-> [w \in PipelineWorkers |->
                    [role |-> w, config |-> PipelineConfig(w),
                     experience |-> EmptyDict]]]

InitOrdered ==
    /\ team = OrderedTeam
    /\ learned = [w \in PipelineWorkers |-> <<>>]
    /\ InitWorker

\* position of a phase in the declared order
PhaseIndex(w) == CHOOSE i \in 1..Len(Phases) : Phases[i] = w

\* the caller constructs the next phase's worker once the previous run()
\* has returned
InvokeNext ==
    \/ /\ name = None
       /\ \E e \in BindEngines : Bind(Phases[1], e)
    \/ /\ name /= None
       /\ result["op"] = "run"
       /\ PhaseIndex(name) < Len(Phases)
       /\ \E e \in BindEngines : Bind(Phases[PhaseIndex(name) + 1], e)

\* what a phase deposits before its run() saves
OrderedDeposit ==
    /\ saves = 0
    /\ result["op"] /= "run"
    /\ Len(runLessons) < MaxDeposits
    /\ \E c \in PipelineCategories, p \in Problems, s \in Solutions,
          x \in Contexts, e \in LearnEngines : Learn(c, p, s, x, e)

NextOrdered ==
    \/ InvokeNext
    \/ OrderedDeposit
    \/ RunAuditor
    \/ RunDbArchitect
    \/ RunBackendSplitter
    \/ RunFrontendSplitter
    \/ RunCleanup

SpecOrdered == InitOrdered /\ [][NextOrdered]_vars

(* C12: pipeline progress.  Starting from a fresh pipeline document, when  *)
(* the caller invokes the phases' run() in declared dependency order and   *)
(* nothing else writes to the document, no phase returns blocked.  Stated  *)
(* as the claim states it; the second phase is blocked because the first   *)
(* never marks itself complete (C11).                                      *)
C12_NoPhaseBlocked ==
    result["op"] = "run" => result["status"] /= "blocked"

----------------------------------------------------------------------------
(* Strategy workers: the subclasses of Agent under jobs/, each with its    *)
(* own run().                                                              *)

StrategyClassOf ==
    [session |-> "SessionAgent", test_runner |-> "TestRunnerAgent",
     dev_harness |-> "DevHarnessAgent", env_setup |-> "EnvSetupAgent",
     cleanup |-> "CleanupAgent"]

StrategyInvoked == DOMAIN StrategyClassOf
StrategyWorkers == StrategyInvoked \cup {"frontend_splitter"}

\* the live worker is an object of class c
IsA(c) == name \in StrategyInvoked /\ StrategyClassOf[name] = c

\* SessionAgent.recall_session_context: the summary of the other workers
other_agents(t, self) ==
    [w \in DOMAIN t["agents"] \ {self} |->
        LET exp == Get(t["agents"][w], "experience", EmptyDict)
            lessons == Get(exp, "lessons_learned", <<>>)
        IN  [role |-> Get(t["agents"][w], "role", ""),
             run_count |-> Get(exp, "run_count", 0),
             recent_lessons |-> SliceFrom(lessons, -5)]]

recall_session_context(t, self) ==
    [role |-> t["agents"][self]["role"],
     past_lessons |-> recall(t["agents"][self]["experience"], None).value,
     universal_knowledge |-> Get(t, "universal_knowledge", EmptyDict),
     run_count |-> Get(t["agents"][self]["experience"], "run_count", 0),
     other_agents |-> other_agents(t, self)]

\* SessionAgent.run: builds the context and returns it
SessionRun ==
    /\ IsA("SessionAgent")
    /\ result' = Ret("run", name, "context", recall_session_context(team, name))
    /\ UNCHANGED <<team, name, engine, runLessons, clock, learned, saves, atBind>>
    /\ UNCHANGED <<factoryVars, ioVars>>
    /\ hookCalls' = 2

\* DevHarnessAgent.run
DevHarnessRun ==
    /\ IsA("DevHarnessAgent")
    /\ RunCount(name) < MaxPhaseRuns
    /\ Work("ready", <<>>)
    /\ hookCalls' = 1

\* EnvSetupAgent.run
EnvSetupRun ==
    /\ IsA("EnvSetupAgent")
    /\ RunCount(name) < MaxPhaseRuns
    /\ Work("ready", <<>>)
    /\ hookCalls' = 1

\* CleanupAgent.run on a strategy team
StrategyCleanupRun == IsA("CleanupAgent") /\ CleanupRun

\* learn() called once per lesson of ls, in order
RECURSIVE learn_all(_, _, _)
learn_all(buffer, exp, ls) ==
    IF ls = <<>> THEN [buffer |-> buffer, experience |-> exp]
    ELSE LET r == learn(buffer, exp, Head(ls))
         IN  learn_all(r.buffer, r.experience, Tail(ls))

\* the part of TestRunnerAgent.run from its learn() calls to its return:
\* the lessons are learnt, exp is what run() made of self.experience, and
\* save_state() is called once
TestRunnerReturn(status, lessons, exp, value) ==
    /\ clock < MaxLearn
    /\ LET l == learn_all(runLessons, exp, lessons)
           r == save_state(l.experience, Config(name), l.buffer)
       IN  /\ team' = WithExperience(team, name, r.experience)
           /\ runLessons' = r.buffer
    /\ learned' = [learned EXCEPT ![name] = @ \o lessons]
    /\ clock' = clock + Len(lessons)
    /\ saves' = saves + 1
    /\ result' = Ret("run", name, status, value)
    /\ UNCHANGED <<name, engine, atBind>>
    /\ UNCHANGED <<factoryVars, ioVars>>
    /\ hookCalls' = 1

\* TestRunnerAgent.run, subprocess.TimeoutExpired
TestRunnerTimeout ==
    TestRunnerReturn("timeout",
        <<Lesson(clock + 1, "timeout", "Tests timed out",
                 "Increase timeout or split test suite", None, None, engine)>>,
        Experience(name), <<>>)

\* TestRunnerAgent.run, FileNotFoundError
TestRunnerNotFound ==
    TestRunnerReturn("command_not_found",
        <<Lesson(clock + 1, "missing_tool", "Test command not found",
                 "Install test framework or check PATH", None, None, engine)>>,
        Experience(name), <<>>)

\* test_runner/agent.py line 88: history[-20:]
HistoryKeep == 20
\* test_runner/agent.py line 78: config.get("flaky_threshold", 3)
DefaultFlakyThreshold == 3

\* what _parse_results makes of the test command's output: all tests pass,
\* or test "t1" fails
TestResults ==
    {[passed |-> 1, failed |-> 0, errors |-> 0, test_details |-> <<>>],
     [passed |-> 0, failed |-> 1, errors |-> 0,
      test_details |-> <<[name |-> "t1", status |-> "failed"]>>]}

\* {t["name"] for t in results["test_details"] if t["status"] in (...)}
failed_names(results) ==
    {results.test_details[i].name :
        i \in {j \in 1..Len(results.test_details) :
                  results.test_details[j].status \in {"failed", "error"}}}

\* the elements of a set in the order a for loop visits them
RECURSIVE SetToSeq(_)
SetToSeq(S) ==
    IF S = {} THEN <<>>
    ELSE LET x == CHOOSE y \in S : TRUE
         IN  <<x>> \o SetToSeq(S \ {x})

\* _update_flaky_tracking: the history of a failing test after this run
history_of(exp, test, run) ==
    Append(Get(Get(exp, "failure_history", EmptyDict), test, <<>>),
           [run |-> run, status |-> "failed"])

fail_count(h) == Len(SelectSeq(h, LAMBDA e : e.status = "failed"))

is_flaky(h, threshold) ==
    Len(h) >= threshold /\ 0 < fail_count(h) /\ fail_count(h) < Len(h)

\* TestRunnerAgent.run when the test command ran to its end
TestRunnerCompleted(results) ==
    LET exp == Experience(name)
        run == Get(exp, "run_count", 0) + 1
        threshold == Get(Config(name), "flaky_threshold", DefaultFlakyThreshold)
        flaky0 == Get(exp, "flaky_tests", EmptyDict)
        hist0 == Get(exp, "failure_history", EmptyDict)
        last_failures ==
            Get(Get(exp, "last_run_summary", EmptyDict), "failed_tests", {})
        current_failures == failed_names(results)
        new_failures == SetToSeq(current_failures \ last_failures)
        flaky == {t \in current_failures :
                     is_flaky(history_of(exp, t, run), threshold)}
        known == {l["context"] :
                     l \in {recall(exp, "flaky_test").value[i] :
                              i \in 1..Len(recall(exp, "flaky_test").value)}}
        flaky_new == SetToSeq(flaky \ known)
        lessons1 == [i \in 1..Len(new_failures) |->
                        Lesson(clock + i, "new_failure", new_failures[i],
                               "Was passing before", new_failures[i],
                               None, engine)]
        lessons2 == [i \in 1..Len(flaky_new) |->
                        Lesson(clock + Len(new_failures) + i, "flaky_test",
                               flaky_new[i], "Fail rate", flaky_new[i],
                               None, engine)]
        failure_history ==
            [t \in (DOMAIN hist0) \cup current_failures |->
                IF t \in current_failures
                THEN SliceFrom(history_of(exp, t, run), -HistoryKeep)
                ELSE hist0[t]]
        flaky_tests ==
            [t \in (DOMAIN flaky0) \cup flaky |->
                IF t \in flaky
                THEN [fail_rate |-> <<fail_count(history_of(exp, t, run)),
                                      Len(history_of(exp, t, run))>>,
                      last_seen |-> clock]
                ELSE flaky0[t]]
        last_run_summary ==
            [timestamp |-> clock, passed |-> results.passed,
             failed |-> results.failed, errors |-> results.errors,
             failed_tests |-> current_failures]
        exp1 == Put(Put(Put(exp, "flaky_tests", flaky_tests),
                        "failure_history", failure_history),
                    "last_run_summary", last_run_summary)
    IN  TestRunnerReturn("completed", lessons1 \o lessons2, exp1,
                         new_failures)

\* TestRunnerAgent.run
TestRunnerRun ==
    /\ IsA("TestRunnerAgent")
    /\ RunCount(name) < MaxPhaseRuns
    /\ \/ TestRunnerTimeout
       \/ TestRunnerNotFound
       \/ \E results \in TestResults : TestRunnerCompleted(results)

----------------------------------------------------------------------------
(* SpecStrategy: a team of strategy workers, each invoked by constructing  *)
(* its object, depositing lessons at will and calling run().               *)

StrategyConfig(w) ==
    IF w = "cleanup" THEN [depends_on |-> "frontend_splitter"] ELSE EmptyDict

StrategyTeams ==
    {[project_id |-> "demo",
      universal_knowledge |-> [x |-> 1],
      agents |-> [w \in StrategyWorkers |->
                     [role |-> w, config |-> StrategyConfig(w),
                      experience |-> IF w = "frontend_splitter" THEN x
                                     ELSE EmptyDict]]]
     : x \in {EmptyDict, [status |-> "complete", completed_at |-> 0]}}

InitStrategy ==
    /\ team \in StrategyTeams
    /\ learned = [w \in StrategyWorkers |-> <<>>]
    /\ InitWorker

BindStrategy ==
    /\ name = None \/ result["op"] = "run"
    /\ \E n \in StrategyInvoked, e \in BindEngines : Bind(n, e)

StrategyDeposit ==
    /\ saves = 0
    /\ result["op"] /= "run"
    /\ clock < MaxDeposits
    /\ \E c \in FreeCategories, p \in Problems, s \in Solutions,
          x \in Contexts, e \in LearnEngines : Learn(c, p, s, x, e)

NextStrategy ==
    \/ BindStrategy
    \/ StrategyDeposit
    \/ SessionRun
    \/ TestRunnerRun
    \/ DevHarnessRun
    \/ EnvSetupRun
    \/ StrategyCleanupRun

SpecStrategy == InitStrategy /\ [][NextStrategy]_vars

(* C13: every strategy worker's run() calls save_state() exactly once      *)
(* before returning on every non-blocked path, the timeout and             *)
(* command-not-found returns of TestRunnerAgent included, so run_count     *)
(* after run() equals run_count before plus 1.  Stated as the claim states *)
(* it; SessionAgent.run returns without calling save_state().              *)
C13_RunSavesOnce ==
    [][ /\ result'["op"] = "run"
        /\ result'["status"] /= "blocked"
        => /\ saves' = saves + 1
           /\ RunCount(name)' = RunCount(name) + 1 ]_vars

----------------------------------------------------------------------------
(* Team factory (agent_framework/team_factory.py).  The factory branches   *)
(* on the runtime type of the values it meets, so the sections of a worker *)
(* record and the values inside them carry their Python type.             *)

JInt(n) == [int |-> n]
JFloat(x) == [float |-> x]                  \* x: the literal, e.g. "0.5"
JBool(b) == [bool |-> b]
JStr(x) == [str |-> x]
JNull == [null |-> None]
JList(x) == [list |-> x]
JDict(d) == [dict |-> d]

\* type(x) and the value itself
TypeOf(x) == CHOOSE t \in DOMAIN x : TRUE
V(x) == x[TypeOf(x)]

\* isinstance(x, dict), isinstance(x, list), x is None
IsDict(x) == TypeOf(x) = "dict"
IsList(x) == TypeOf(x) = "list"
IsNull(x) == TypeOf(x) = "null"

\* isinstance(x, (int, float)): bool is a subclass of int
IsNumber(x) == TypeOf(x) \in {"int", "float", "bool"}

\* d.update(e)
Update(d, e) ==
    [k \in (DOMAIN d) \cup (DOMAIN e) |-> IF k \in DOMAIN e THEN e[k] ELSE d[k]]

reset_value_NoPreserve(key, value) ==
    IF key = "lessons_learned" THEN JList(<<>>)
    ELSE IF IsList(value) THEN JList(<<>>)
    ELSE IF IsDict(value)
         THEN IF \A k \in DOMAIN V(value) : IsNumber(V(value)[k])
              THEN JDict([k \in DOMAIN V(value) |-> JInt(0)])
              ELSE JDict(EmptyDict)
    ELSE IF IsNumber(value) THEN JInt(0)
    ELSE IF IsNull(value) THEN JNull
    ELSE JStr("")

\* _reset_experience, lines 33-48: what one key of an experience becomes
reset_value(key, value) ==
    IF key = "lessons_learned" THEN JList(<<>>)
    ELSE IF key = "format_priority" THEN value
    ELSE IF IsList(value) THEN JList(<<>>)
    ELSE IF IsDict(value)
         THEN IF \A k \in DOMAIN V(value) : IsNumber(V(value)[k])
              THEN JDict([k \in DOMAIN V(value) |-> JInt(0)])
              ELSE JDict(EmptyDict)
    ELSE IF IsNumber(value) THEN JInt(0)
    ELSE IF IsNull(value) THEN JNull
    ELSE JStr("")

_reset_experience_DropsOldest(t) ==
    [t EXCEPT !["agents"] =
        [w \in DOMAIN @ |->
            [@[w] EXCEPT !["experience"] =
                JDict([k \in DOMAIN V(@) |->
                    IF k = "lessons_learned" /\ V(V(@)[k]) /= <<>>
                    THEN JList(Tail(V(V(@)[k])))
                    ELSE reset_value(k, V(@)[k])])]]]

\* _reset_experience: every key of every worker's experience, in place
_reset_experience(t) ==
    [t EXCEPT !["agents"] =
        [w \in DOMAIN @ |->
            [@[w] EXCEPT !["experience"] =
                JDict([k \in DOMAIN V(@) |-> reset_value(k, V(@)[k])])]]]

copy_deepcopy_Shallow(d) == [value |-> d, aliased |-> TRUE]

\* copy.deepcopy(source_team): an equal document that shares no object
\* with the source
copy_deepcopy(d) == [value |-> d, aliased |-> FALSE]

merge_section_Replace(agent, section, values) == Put(agent, section, values)

\* create_team, lines 91-94: one (section, values) entry of a worker's
\* overrides
merge_section(agent, section, values) ==
    IF section \in DOMAIN agent /\ IsDict(agent[section])
    THEN Put(agent, section, JDict(Update(V(agent[section]), V(values))))
    ELSE Put(agent, section, values)

\* create_team, lines 90-94: all the entries of one worker's overrides
RECURSIVE merge_sections(_, _, _)
merge_sections(agent, overrides, sections) ==
    IF sections = {} THEN agent
    ELSE LET section == CHOOSE x \in sections : TRUE
         IN  merge_sections(merge_section(agent, section, overrides[section]),
                            overrides, sections \ {section})

apply_overrides_CreatesWorker(t, agent_overrides) ==
    [t EXCEPT !["agents"] =
        [w \in (DOMAIN @) \cup (DOMAIN agent_overrides) |->
            IF w \notin DOMAIN agent_overrides THEN @[w]
            ELSE IF w \in DOMAIN @
                 THEN merge_sections(@[w], agent_overrides[w],
                                     DOMAIN agent_overrides[w])
                 ELSE Update([role |-> JStr(""), config |-> JDict(EmptyDict),
                              experience |-> JDict(EmptyDict)],
                             agent_overrides[w])]]

\* create_team, lines 86-94
apply_overrides(t, agent_overrides) ==
    [t EXCEPT !["agents"] =
        [w \in DOMAIN @ |->
            IF w \in DOMAIN agent_overrides
            THEN merge_sections(@[w], agent_overrides[w],
                                DOMAIN agent_overrides[w])
            ELSE @[w]]]

\* create_team, lines 75-78
set_identity(t, project_id, today) ==
    LET t1 == Put(t, "project_id",
                  IF "project_id" \in DOMAIN t THEN project_id ELSE None)
        t2 == IF "city" \in DOMAIN t1 THEN Put(t1, "city", project_id) ELSE t1
    IN  Put(t2, "created", today)

create_team_ResetFirst(source_team, project_id, project_meta, agent_overrides, today) ==
    LET c == copy_deepcopy(source_team)
        identified == set_identity(c.value, project_id, today)
        with_meta == Update(identified, project_meta)
        new_team == apply_overrides(_reset_experience(with_meta), agent_overrides)
    IN  [new_team |-> new_team,
         aliased |-> c.aliased,
         source_team |-> IF c.aliased
                         THEN [source_team EXCEPT !["agents"] = new_team["agents"]]
                         ELSE source_team]

\* create_team without output_path: the document returned, and the source
\* document as the call leaves it
create_team(source_team, project_id, project_meta, agent_overrides, today) ==
    LET c == copy_deepcopy(source_team)
        identified == set_identity(c.value, project_id, today)
        with_meta == Update(identified, project_meta)
        new_team == _reset_experience(apply_overrides(with_meta, agent_overrides))
    IN  [new_team |-> new_team,
         aliased |-> c.aliased,
         source_team |-> IF c.aliased
                         THEN [source_team EXCEPT !["agents"] = new_team["agents"]]
                         ELSE source_team]

----------------------------------------------------------------------------
(* SpecFactory: a source document is cloned once with create_team, then    *)
(* workers of the clone save their state.                                  *)

FactoryWorkers == {"scout", "parser"}

JLesson(n) ==
    JDict([timestamp |-> JInt(n), category |-> JStr("dead_url"),
           problem |-> JStr("p"), solution |-> JStr("s")])

\* format_priority in each shape a JSON value can take
FormatPriorities ==
    {JList(<<JStr("pdf"), JStr("html")>>), JDict([pdf |-> JInt(1)]),
     JInt(3), JStr("pdf-first")}

\* an experience with a key of every shape _reset_experience tells apart
ScoutExperience(fp) ==
    [lessons_learned |-> JList(<<JLesson(1), JLesson(2), JLesson(3)>>),
     format_priority |-> fp,
     run_count |-> JInt(3),
     score |-> JInt(7),
     rate |-> JFloat("0.5"),
     tags |-> JList(<<JStr("a"), JStr("b")>>),
     counts |-> JDict([a |-> JInt(1), b |-> JFloat("2.5")]),
     mixed |-> JDict([a |-> JInt(1), b |-> JStr("x")]),
     flags |-> JDict([a |-> JBool(TRUE), b |-> JBool(FALSE)]),
     empty |-> JDict(EmptyDict),
     note |-> JStr("n"),
     last |-> JNull,
     active |-> JBool(TRUE)]

SourceAgents(fp) ==
    [w \in FactoryWorkers |->
        IF w = "scout"
        THEN [role |-> JStr("scout"),
              config |-> JDict([depth |-> JInt(1), max_lessons |-> JInt(2)]),
              experience |-> JDict(ScoutExperience(fp))]
        ELSE [role |-> JStr("parser"),
              config |-> JDict([depth |-> JInt(1)]),
              experience |-> JDict([run_count |-> JInt(1),
                                    status |-> JStr("complete")])]]

\* source documents, with and without the keys create_team looks for
FactorySources ==
    {Update(Update([universal_knowledge |-> [x |-> 1],
                    created |-> "2020-01-01",
                    agents |-> SourceAgents(fp)], pid), city)
     : fp \in FormatPriorities,
       pid \in {EmptyDict, [project_id |-> "demo"]},
       city \in {EmptyDict, [city |-> "demo-city"]}}

ProjectIds == {"haifa"}
Today == "2026-01-01"

\* project_meta; None and {} both skip the loop of lines 81-83
ProjectMetas ==
    {EmptyDict, [city_name |-> "Haifa"], [project_id |-> "other"],
     [universal_knowledge |-> [x |-> 2]]}

\* agent_overrides; None and {} both skip the loop of lines 86-94
AgentOverrides ==
    {EmptyDict,
     [scout |-> [config |-> JDict([depth |-> JInt(5), timeout |-> JInt(9)])]],
     [scout |-> [role |-> JStr("lead")]],
     [scout |-> [experience |->
                    JDict([format_priority |-> JStr("new"),
                           lessons_learned |-> JList(<<JLesson(9)>>),
                           score |-> JInt(3),
                           fresh |-> JStr("x")])]],
     [ghost |-> [config |-> JDict([depth |-> JInt(5)])]],
     [scout |-> [notes |-> JDict([k |-> JInt(1)])],
      parser |-> [config |-> JDict([depth |-> JInt(2)])]]}

InitFactory ==
    /\ team \in FactorySources
    /\ learned = [w \in FactoryWorkers |-> <<>>]
    /\ InitWorker

\* new_team = create_team(team, project_id, project_meta, agent_overrides)
CreateTeam ==
    /\ ~call.made
    /\ \E project_id \in ProjectIds, project_meta \in ProjectMetas,
          agent_overrides \in AgentOverrides :
          LET r == create_team(team, project_id, project_meta,
                               agent_overrides, Today)
          IN  /\ newTeam' = r.new_team
              /\ aliased' = r.aliased
              /\ team' = r.source_team
              /\ call' = [made |-> TRUE, source_team |-> team,
                          project_id |-> project_id,
                          project_meta |-> project_meta,
                          agent_overrides |-> agent_overrides]
              /\ result' = Ret("create_team", project_id, "ok", <<>>)
    /\ UNCHANGED <<name, engine, runLessons, clock, learned, saves, atBind>>
    /\ UNCHANGED <<hookCalls, ioVars>>

\* Agent(w, t).save_state() with nothing learnt, on a document t whose
\* sections carry their types
SaveWorker(t, w) ==
    LET exp == V(t["agents"][w]["experience"])
        cfg == V(t["agents"][w]["config"])
        plainExp == [k \in (DOMAIN exp) \cap {"lessons_learned", "run_count"}
                        |-> V(exp[k])]
        plainCfg == [k \in (DOMAIN cfg) \cap {"max_lessons"} |-> V(cfg[k])]
        r == save_state(plainExp, plainCfg, <<>>).experience
    IN  [t EXCEPT !["agents"][w]["experience"] =
            JDict(Update(exp, [lessons_learned |-> JList(r["lessons_learned"]),
                               run_count |-> JInt(r["run_count"])]))]

\* a worker of the clone is run and saves its state
CloneSave ==
    /\ call.made
    /\ \E w \in DOMAIN newTeam["agents"] :
          /\ V(Get(V(newTeam["agents"][w]["experience"]), "run_count", JInt(0)))
                < MaxCloneRuns
          /\ newTeam' = SaveWorker(newTeam, w)
          /\ team' = IF aliased
                     THEN [team EXCEPT !["agents"] = newTeam'["agents"]]
                     ELSE team
          /\ result' = Ret("save_state", w, "ok", <<>>)
    /\ UNCHANGED <<name, engine, runLessons, clock, learned, saves, atBind,
                   call, aliased, hookCalls, ioVars>>

NextFactory == CreateTeam \/ CloneSave

SpecFactory == InitFactory /\ [][NextFactory]_vars

----------------------------------------------------------------------------
(* Properties of create_team *)

\* the state right after create_team has returned
Returned == call.made /\ result["op"] = "create_team"

\* the source document as it was passed, and a worker's record in it
SourceTeam == call.source_team
SourceAgent(w) == SourceTeam["agents"][w]
NewAgent(w) == newTeam["agents"][w]

\* the sections of worker w that agent_overrides names
Named(w) ==
    IF w \in DOMAIN call.agent_overrides
    THEN DOMAIN call.agent_overrides[w]
    ELSE {}

NamedExperience(w) ==
    IF "experience" \in Named(w)
    THEN DOMAIN V(call.agent_overrides[w]["experience"])
    ELSE {}

BeforeReset(w) ==
    IF "experience" \in Named(w)
    THEN Update(V(SourceAgent(w)["experience"]),
                V(call.agent_overrides[w]["experience"]))
    ELSE V(SourceAgent(w)["experience"])

\* the keys of worker w's experience that the reset treats by shape
ShapedKeys(w) == (DOMAIN BeforeReset(w)) \ {"lessons_learned", "format_priority"}

\* a number as the specification counts them: an integer or a float
IsNumeric(x) == TypeOf(x) \in {"int", "float"}
IsBool(x) == TypeOf(x) = "bool"
IsStr(x) == TypeOf(x) = "str"

(* C16: experience reset by shape, as the claim states it.  For every      *)
(* experience key other than lessons_learned and format_priority: a        *)
(* sequence becomes []; a mapping whose values are all numbers becomes the *)
(* same keys each mapped to 0; any other mapping becomes {}; a number      *)
(* becomes 0; null stays null; a string becomes "".  The code counts       *)
(* booleans as numbers (C17), so a mapping of booleans is zero-filled.     *)
C16_ResetByShape ==
    Returned =>
        \A w \in DOMAIN SourceTeam["agents"] : \A k \in ShapedKeys(w) :
            LET old == BeforeReset(w)[k]
                new == V(NewAgent(w)["experience"])[k]
            IN  /\ IsList(old) => new = JList(<<>>)
                /\ IsDict(old) =>
                      IF \A x \in DOMAIN V(old) : IsNumeric(V(old)[x])
                      THEN new = JDict([x \in DOMAIN V(old) |-> JInt(0)])
                      ELSE new = JDict(EmptyDict)
                /\ IsNumeric(old) => new = JInt(0)
                /\ IsNull(old) => new = JNull
                /\ IsStr(old) => new = JStr("")

(* C17: experience reset of a boolean, as the claim states it.  An         *)
(* experience key whose value is a boolean scalar is reset to the empty    *)
(* string.  The code resets it to 0.                                       *)
C17_BooleanToEmptyString ==
    Returned =>
        \A w \in DOMAIN SourceTeam["agents"] : \A k \in ShapedKeys(w) :
            IsBool(BeforeReset(w)[k]) =>
                V(NewAgent(w)["experience"])[k] = JStr("")

C19_CloneIdentity ==
    Returned /\ "project_id" \notin DOMAIN call.project_meta
             /\ "created" \notin DOMAIN call.project_meta =>
        /\ newTeam["project_id"] = call.project_id
        /\ newTeam["created"] = Today

(* C20: override merge semantics, as the claim states it.  For each        *)
(* (worker, section, values) of agent_overrides whose worker exists in the *)
(* source: if the section exists on that worker and is a mapping, the      *)
(* resulting section has every overridden key set to the override value    *)
(* and every other key unchanged; otherwise the resulting section is       *)
(* exactly values.                                                         *)
MergedInto(w, section) ==
    LET values == call.agent_overrides[w][section]
    IN  IF section \in DOMAIN SourceAgent(w) /\ IsDict(SourceAgent(w)[section])
        THEN LET old == V(SourceAgent(w)[section])
                 new == V(NewAgent(w)[section])
             IN  /\ IsDict(NewAgent(w)[section])
                 /\ DOMAIN new = (DOMAIN old) \cup (DOMAIN V(values))
                 /\ \A k \in DOMAIN V(values) : new[k] = V(values)[k]
                 /\ \A k \in (DOMAIN old) \ (DOMAIN V(values)) : new[k] = old[k]
        ELSE /\ section \in DOMAIN NewAgent(w)
             /\ NewAgent(w)[section] = values

C21_ResetAfterOverrides ==
    Returned =>
        \A w \in (DOMAIN call.agent_overrides) \cap (DOMAIN SourceTeam["agents"]) :
            \A k \in NamedExperience(w) :
                LET given == V(call.agent_overrides[w]["experience"])[k]
                    new == V(NewAgent(w)["experience"])[k]
                IN  IF k = "format_priority" THEN new = given
                    ELSE /\ k = "lessons_learned" => new = JList(<<>>)
                         /\ IsNumeric(given) => new = JInt(0)
                         /\ IsStr(given) => new = JStr("")
                         /\ reset_value(k, new) = new

C21_Witness ==
    /\ Returned
    /\ NamedExperience("scout") =
          {"format_priority", "lessons_learned", "score", "fresh"}
    /\ V(NewAgent("scout")["experience"])["format_priority"] = JStr("new")
    /\ V(NewAgent("scout")["experience"])["lessons_learned"] = JList(<<>>)
    /\ V(NewAgent("scout")["experience"])["score"] = JInt(0)
    /\ V(NewAgent("scout")["experience"])["fresh"] = JStr("")

-----------------------------------------------------------------------------
(* C30: experience hook call count.  In every strategy worker's run(),     *)
(* _apply_experience() is invoked exactly once in each non-blocked work    *)
(* phase, and it is never invoked from recall() or learn().                *)
C30_HookOnce ==
    /\ (result["op"] = "run" /\ result["status"] /= "blocked") => hookCalls = 1
    /\ result["op"] \in {"recall", "learn"} => hookCalls = 0

-----------------------------------------------------------------------------
(* C28: a worker's lifecycle writes only its own experience.  learn() and  *)
(* save_state() on worker w change nothing in the document outside         *)
(* document.agents[w].experience: every other worker's record, w's own     *)
(* role and config, universal_knowledge and all top-level fields are       *)
(* unchanged.                                                              *)
C28_OwnExperienceOnly ==
    [][result'["op"] \in {"learn", "save_state"} =>
        /\ DOMAIN team' = DOMAIN team
        /\ \A k \in DOMAIN team \ {"agents"} : team'[k] = team[k]
        /\ DOMAIN team'["agents"] = DOMAIN team["agents"]
        /\ \A w \in DOMAIN team["agents"] \ {name} :
              team'["agents"][w] = team["agents"][w]
        /\ DOMAIN team'["agents"][name] = DOMAIN team["agents"][name]
        /\ \A f \in DOMAIN team["agents"][name] \ {"experience"} :
              team'["agents"][name][f] = team["agents"][name][f]]_vars

\* a save_state that flushed a learnt lesson into the worker's experience,
\* with another worker in the document
C28_Witness ==
    /\ result["op"] = "save_state"
    /\ name /= None
    /\ Len(runLessons) > 0
    /\ Experience(name) /= atBind["agents"][name]["experience"]
    /\ DOMAIN Agents \ {name} /= {}
    /\ "universal_knowledge" \in DOMAIN team

-----------------------------------------------------------------------------
(* CodeReviewerAgent (jobs/code_reviewer): reviews a list of changed files *)
(* against the configured and the learned anti-patterns and style rules.   *)

Reviewer == "reviewer"
ReviewerWorkers == {Reviewer, "parser"}

MaxReviews == 2    \* run() calls counted in the reviewer's run_count

\* code_reviewer/agent.py line 143: count >= 3
RecurringThreshold == 3

\* the files on disk: whether the path exists and can be read, and how
\* often each regular expression matches its text
FileSystem ==
    [clean |-> [status |-> "ok", hits |-> EmptyDict],
     todo |-> [status |-> "ok", hits |-> [TODO |-> 3, tab |-> 1]],
     evil |-> [status |-> "ok", hits |-> [eval |-> 1]],
     gone |-> [status |-> "missing", hits |-> EmptyDict],
     locked |-> [status |-> "unreadable", hits |-> EmptyDict]]

\* len(list(re.finditer(pattern, content)))
Hits(filepath, pattern) == Get(FileSystem[filepath].hits, pattern, 0)

\* the changed_files arguments drawn
ChangedFiles ==
    {None, <<"clean">>, <<"todo">>, <<"gone", "evil">>,
     <<"locked", "todo", "evil">>}

Repeat(x, n) == [i \in 1..n |-> x]

\* lines 43-46: the truthy contexts of the known anti-pattern lessons
RECURSIVE learned_patterns(_)
learned_patterns(known) ==
    IF known = <<>> THEN <<>>
    ELSE LET pattern == Get(Head(known), "context", "")
         IN  (IF Truthy(pattern) THEN <<pattern>> ELSE <<>>)
             \o learned_patterns(Tail(known))

\* lines 48-62: one finding per match of each pattern, in list order
RECURSIVE pattern_findings(_, _)
pattern_findings(filepath, patterns) ==
    IF patterns = <<>> THEN <<>>
    ELSE Repeat([file |-> filepath, severity |-> "warning",
                 type |-> "anti_pattern", pattern |-> Head(patterns)],
                Hits(filepath, Head(patterns)))
         \o pattern_findings(filepath, Tail(patterns))

\* _check_antipatterns: the findings and self.config as the call leaves it.
\* config.get("anti_patterns", []) is the configured list itself when the
\* key is present, and the appends of line 46 are made to that list.
_check_antipatterns(config, known, filepath) ==
    LET patterns == Get(config, "anti_patterns", <<>>) \o learned_patterns(known)
    IN  [findings |-> pattern_findings(filepath, patterns),
         config |-> IF "anti_patterns" \in DOMAIN config
                    THEN Put(config, "anti_patterns", patterns)
                    ELSE config]

\* _check_style: one finding per rule whose pattern is found
RECURSIVE _check_style(_, _)
_check_style(rules, filepath) ==
    IF rules = <<>> THEN <<>>
    ELSE LET rule == Head(rules)
             pattern == Get(rule, "pattern", "")
         IN  (IF Hits(filepath, pattern) > 0
              THEN <<[file |-> filepath,
                      severity |-> Get(rule, "severity", "suggestion"),
                      type |-> "style",
                      message |-> Get(rule, "message", "Style issue"),
                      pattern |-> pattern]>>
              ELSE <<>>)
             \o _check_style(Tail(rules), filepath)

\* run, lines 105-126: the loop over the files; self.config, all_findings
\* and the lessons learnt for missing and unreadable files
RECURSIVE review_files(_, _, _, _, _)
review_files(paths, config, known, now, selfEngine) ==
    IF paths = <<>>
    THEN [config |-> config, findings |-> <<>>, lessons |-> <<>>]
    ELSE LET filepath == Head(paths)
             status == FileSystem[filepath].status
         IN  IF status = "ok"
             THEN LET a == _check_antipatterns(config, known, filepath)
                      s == _check_style(Get(a.config, "style_rules", <<>>),
                                        filepath)
                      rest == review_files(Tail(paths), a.config, known, now,
                                           selfEngine)
                  IN  [config |-> rest.config,
                       findings |-> a.findings \o s \o rest.findings,
                       lessons |-> rest.lessons]
             ELSE LET lesson ==
                          IF status = "missing"
                          THEN Lesson(now + 1, "missing_file", "File not found",
                                      "Check path or file was deleted",
                                      filepath, None, selfEngine)
                          ELSE Lesson(now + 1, "read_error", "Cannot read",
                                      "OSError", filepath, None, selfEngine)
                      rest == review_files(Tail(paths), config, known, now + 1,
                                           selfEngine)
                  IN  [config |-> rest.config,
                       findings |-> rest.findings,
                       lessons |-> <<lesson>> \o rest.lessons]

\* patterns_seen is a dict in insertion order: a list of key/count pairs
od_incr(od, key) ==
    IF \E i \in 1..Len(od) : od[i].k = key
    THEN [i \in 1..Len(od) |->
             IF od[i].k = key THEN [k |-> key, v |-> od[i].v + 1] ELSE od[i]]
    ELSE Append(od, [k |-> key, v |-> 1])

\* lines 135-139: count every finding under its pattern
RECURSIVE count_patterns(_, _)
count_patterns(od, findings) ==
    IF findings = <<>> THEN od
    ELSE count_patterns(od_incr(od, Head(findings).pattern), Tail(findings))

\* lines 142-149: a lesson for each pattern seen three times or more that
\* no recurring_pattern lesson of the experience names yet
RECURSIVE recurring_lessons(_, _, _, _)
recurring_lessons(od, exp, now, selfEngine) ==
    IF od = <<>> THEN <<>>
    ELSE LET pattern == Head(od).k
             known == recall(exp, "recurring_pattern").value
             fresh == /\ Head(od).v >= RecurringThreshold
                      /\ ~\E i \in 1..Len(known) :
                            Get(known[i], "context", None) = pattern
         IN  IF fresh
             THEN <<Lesson(now + 1, "recurring_pattern",
                           "Pattern appears again across reviews",
                           "Consider adding to project linter or style guide",
                           pattern, None, selfEngine)>>
                  \o recurring_lessons(Tail(od), exp, now + 1, selfEngine)
             ELSE recurring_lessons(Tail(od), exp, now, selfEngine)

\* {k: len(v) for k, v in by_severity.items()}
by_severity(findings) ==
    [s \in {findings[i].severity : i \in 1..Len(findings)} |->
        Len(SelectSeq(findings, LAMBDA f : f.severity = s))]

\* CodeReviewerAgent.run
CodeReviewerRun(changed_files) ==
    /\ name = Reviewer
    /\ RunCount(name) < MaxReviews
    /\ LET known == recall(Experience(name), "anti_pattern").value
           paths == IF changed_files = None THEN <<>> ELSE changed_files
           rv == review_files(paths, Config(name), known, clock, engine)
           patterns_seen ==
               count_patterns(Get(Experience(name), "patterns_seen", <<>>),
                              rv.findings)
           exp1 == Put(Experience(name), "patterns_seen", patterns_seen)
           recurring == recurring_lessons(patterns_seen, exp1,
                                          clock + Len(rv.lessons), engine)
           exp2 == IF Len(rv.findings) > 0
                   THEN Put(exp1, "regressions_caught",
                            Get(exp1, "regressions_caught", 0)
                            + Get(by_severity(rv.findings), "critical", 0))
                   ELSE exp1
           lessons == rv.lessons \o recurring
           l == learn_all(runLessons, exp2, lessons)
           r == save_state(l.experience, rv.config, l.buffer)
       IN  /\ clock + Len(lessons) <= MaxLearn
           /\ team' = [team EXCEPT !["agents"][name] =
                          [@ EXCEPT !["config"] = rv.config,
                                    !["experience"] = r.experience]]
           /\ runLessons' = r.buffer
           /\ learned' = [learned EXCEPT ![name] = @ \o lessons]
           /\ clock' = clock + Len(lessons)
           /\ result' = Ret("run", name, "ok",
                            [total_issues |-> Len(rv.findings),
                             by_severity |-> by_severity(rv.findings),
                             findings |-> rv.findings,
                             files_reviewed |-> Len(paths)])
    /\ saves' = saves + 1
    /\ hookCalls' = 1
    /\ UNCHANGED <<name, engine, atBind>>
    /\ UNCHANGED <<factoryVars, ioVars>>

(* SpecReviewer: a team with a code reviewer; the reviewer's object is     *)
(* constructed, lessons are deposited and run() is called on lists of      *)
(* changed files.                                                          *)

AntiPatternLesson ==
    [timestamp |-> 0, category |-> "anti_pattern", problem |-> "p",
     solution |-> "s", context |-> "TODO"]

ReviewerConfigs ==
    {EmptyDict,
     [anti_patterns |-> <<"eval">>],
     [anti_patterns |-> <<"eval">>,
      style_rules |-> <<[pattern |-> "tab", message |-> "no tabs",
                         severity |-> "critical"]>>]}

ReviewerExperiences ==
    {EmptyDict, [lessons_learned |-> <<AntiPatternLesson>>, run_count |-> 1]}

ReviewerTeams ==
    {[project_id |-> "demo",
      universal_knowledge |-> [x |-> 1],
      agents |-> [w \in ReviewerWorkers |->
         IF w = Reviewer
         THEN [role |-> "reviewer", config |-> c, experience |-> x]
         ELSE [role |-> "parser", config |-> EmptyDict,
               experience |-> EmptyDict]]]
     : c \in ReviewerConfigs, x \in ReviewerExperiences}

InitReviewer ==
    /\ team \in ReviewerTeams
    /\ learned = [w \in ReviewerWorkers |-> <<>>]
    /\ InitWorker

BindReviewer ==
    /\ name = None \/ result["op"] = "run"
    /\ \E e \in BindEngines : Bind(Reviewer, e)

ReviewerDeposit ==
    /\ saves = 0
    /\ result["op"] = "bind"
    /\ clock < MaxDeposits
    /\ \E x \in {"TODO", None} : Learn("anti_pattern", "p", "s", x, None)

ReviewerRun == \E changed_files \in ChangedFiles : CodeReviewerRun(changed_files)

NextReviewer ==
    \/ BindReviewer
    \/ ReviewerDeposit
    \/ ReviewerRun

SpecReviewer == InitReviewer /\ [][NextReviewer]_vars

(* C29: config is read-only at runtime.  No strategy worker's run()        *)
(* changes its own config; in particular, after CodeReviewerAgent.run() on *)
(* any list of files, with any previously learned anti_pattern lessons,    *)
(* config (including config.anti_patterns) is deep-equal to its value      *)
(* before the run.                                                         *)
C29_ConfigReadOnly ==
    [][result'["op"] = "run" =>
          team'["agents"][name]["config"] = team["agents"][name]["config"]]_vars

-----------------------------------------------------------------------------
(* Team files (agent_framework/team_io.py).  A document is written with    *)
(* json.dump(team, f, ensure_ascii=False, indent=2) to a file opened with  *)
(* encoding="utf-8" and read back with json.load from a file opened the    *)
(* same way.  A document is a JSON value whose every part carries its      *)
(* type; a text is a string of characters; a file holds a list of bytes.   *)

\* the printable ASCII characters from code 32 to code 95, and from code 97
\* to code 126
AsciiLow ==
    " !\"#$%&'()*+,-./0123456789:;<=>?@ABCDEFGHIJKLMNOPQRSTUVWXYZ[\\]^_"
AsciiHigh == "abcdefghijklmnopqrstuvwxyz{|}~"

\* a text is written here in ASCII: the characters ^ ~ | & of a text stand
\* for the Hebrew letters U+05D7, U+05D9, U+05E4, U+05D4, which the
\* documents use and which are not ASCII
NonAscii == [c \in {"^", "~", "|", "&"} |->
                CASE c = "^" -> 1495 [] c = "~" -> 1497 [] c = "|" -> 1508
                  [] c = "&" -> 1492]

\* the city name of the docstring of create_team
Haifa == "^~|&"

Newline == "\n"

CharAt(text, i) == SubSeq(text, i, i)

\* ord(c) and chr(n)
Ord ==
    [c \in {CharAt(AsciiLow, i) : i \in 1..Len(AsciiLow)}
           \cup {CharAt(AsciiHigh, i) : i \in 1..Len(AsciiHigh)}
           \cup {Newline} \cup DOMAIN NonAscii |->
        IF c = Newline THEN 10
        ELSE IF c \in DOMAIN NonAscii THEN NonAscii[c]
        ELSE IF \E i \in 1..Len(AsciiLow) : CharAt(AsciiLow, i) = c
        THEN 31 + (CHOOSE i \in 1..Len(AsciiLow) : CharAt(AsciiLow, i) = c)
        ELSE 96 + (CHOOSE i \in 1..Len(AsciiHigh) : CharAt(AsciiHigh, i) = c)]

Chr == [n \in {Ord[c] : c \in DOMAIN Ord} |->
           CHOOSE c \in DOMAIN Ord : Ord[c] = n]

\* str.encode("utf-8"): one byte below 128, two bytes below 2048
utf8_char(n) ==
    IF n < 128 THEN <<n>>
    ELSE <<192 + (n \div 64), 128 + (n % 64)>>

RECURSIVE utf8_encode(_)
utf8_encode(text) ==
    IF Len(text) = 0 THEN <<>>
    ELSE IF Len(text) = 1 THEN utf8_char(Ord[text])
    ELSE utf8_encode(SubSeq(text, 1, Len(text) \div 2))
         \o utf8_encode(SubSeq(text, (Len(text) \div 2) + 1, Len(text)))

IsLead(b) == b >= 192 /\ b < 224
IsContinuation(b) == b >= 128 /\ b < 192
CodePoint(b1, b2) == (b1 - 192) * 64 + (b2 - 128)

\* the bytes are the encoding of a text: a byte below 128 (the NUL byte of
\* a hole in the file included), or a lead byte and its continuation byte
utf8_valid(bytes) ==
    \A i \in 1..Len(bytes) :
        \/ bytes[i] = 0
        \/ bytes[i] \in DOMAIN Chr /\ bytes[i] < 128
        \/ /\ IsLead(bytes[i])
           /\ i < Len(bytes)
           /\ IsContinuation(bytes[i + 1])
           /\ CodePoint(bytes[i], bytes[i + 1]) \in DOMAIN Chr
        \/ /\ IsContinuation(bytes[i])
           /\ i > 1
           /\ IsLead(bytes[i - 1])

\* the characters of bytes lo..hi of a valid encoding
RECURSIVE utf8_text(_, _, _)
utf8_text(bytes, lo, hi) ==
    IF lo > hi THEN ""
    ELSE IF lo = hi
    THEN IF bytes[lo] < 128 THEN Chr[bytes[lo]]
         ELSE IF IsLead(bytes[lo]) THEN Chr[CodePoint(bytes[lo], bytes[lo + 1])]
         ELSE ""
    ELSE utf8_text(bytes, lo, (lo + hi) \div 2)
         \o utf8_text(bytes, ((lo + hi) \div 2) + 1, hi)

\* bytes.decode("utf-8"): the text, or UnicodeDecodeError
utf8_decode(bytes) ==
    IF utf8_valid(bytes)
    THEN [ok |-> TRUE, text |-> utf8_text(bytes, 1, Len(bytes))]
    ELSE [ok |-> FALSE, text |-> ""]

escape_char_Raw(c) == c

\* json.encoder: with ensure_ascii=False only the quote, the backslash and
\* the control characters of a string are escaped
escape_char(c) ==
    IF c = "\"" THEN "\\\""
    ELSE IF c = "\\" THEN "\\\\"
    ELSE IF c = Newline THEN "\\n"
    ELSE c

RECURSIVE escape(_)
escape(s) ==
    IF Len(s) = 0 THEN ""
    ELSE escape_char(CharAt(s, 1)) \o escape(SubSeq(s, 2, Len(s)))

encode_basestring(s) == "\"" \o escape(s) \o "\""

Digits == "0123456789"

\* int.__repr__
RECURSIVE int_repr(_)
int_repr(n) ==
    IF n < 0 THEN "-" \o int_repr(0 - n)
    ELSE IF n < 10 THEN CharAt(Digits, n + 1)
    ELSE int_repr(n \div 10) \o CharAt(Digits, (n % 10) + 1)

RECURSIVE Spaces(_)
Spaces(n) == IF n = 0 THEN "" ELSE " " \o Spaces(n - 1)

\* indent=2: a newline and two spaces per level before every item
newline_indent(level) == Newline \o Spaces(2 * level)

\* json.dumps(value, ensure_ascii=False, indent=2), at a nesting level
RECURSIVE json_dumps(_, _)
RECURSIVE dump_items(_, _)
RECURSIVE dump_pairs(_, _, _)
json_dumps(value, level) ==
    LET t == TypeOf(value)
    IN  CASE t = "null" -> "null"
          [] t = "bool" -> IF V(value) THEN "true" ELSE "false"
          [] t = "int" -> int_repr(V(value))
          [] t = "float" -> V(value)
          [] t = "str" -> encode_basestring(V(value))
          [] t = "list" ->
                IF Len(V(value)) = 0 THEN "[]"
                ELSE "[" \o dump_items(V(value), level + 1)
                         \o newline_indent(level) \o "]"
          [] t = "dict" ->
                IF DOMAIN V(value) = {} THEN "{}"
                ELSE "{" \o dump_pairs(V(value), SetToSeq(DOMAIN V(value)),
                                       level + 1)
                         \o newline_indent(level) \o "}"

dump_items(items, level) ==
    newline_indent(level) \o json_dumps(Head(items), level)
    \o (IF Len(items) = 1 THEN "" ELSE "," \o dump_items(Tail(items), level))

dump_pairs(d, keys, level) ==
    newline_indent(level) \o encode_basestring(Head(keys)) \o ": "
    \o json_dumps(d[Head(keys)], level)
    \o (IF Len(keys) = 1 THEN "" ELSE "," \o dump_pairs(d, Tail(keys), level))

\* json.decoder: a recursive-descent scanner.  Every scan returns whether it
\* succeeded, the value scanned and the index after it.
ScanError == [ok |-> FALSE, value |-> JNull, pos |-> 0]
Scanned(value, pos) == [ok |-> TRUE, value |-> value, pos |-> pos]

Peek(text, i) == IF i >= 1 /\ i <= Len(text) THEN CharAt(text, i) ELSE ""

IsWhitespace(c) == c \in {" ", Newline, "\t"}
IsDigit(c) == \E i \in 1..Len(Digits) : CharAt(Digits, i) = c
DigitValue(c) == (CHOOSE i \in 1..Len(Digits) : CharAt(Digits, i) = c) - 1

RECURSIVE skip_whitespace(_, _)
skip_whitespace(text, i) ==
    IF IsWhitespace(Peek(text, i)) THEN skip_whitespace(text, i + 1) ELSE i

\* scanstring, from the character after the opening quote
RECURSIVE scan_string(_, _, _)
scan_string(text, i, acc) ==
    LET c == Peek(text, i)
    IN  IF c = "" \/ c = Newline THEN ScanError
        ELSE IF c = "\"" THEN Scanned(acc, i + 1)
        ELSE IF c = "\\"
        THEN LET e == Peek(text, i + 1)
             IN  IF e = "\"" THEN scan_string(text, i + 2, acc \o "\"")
                 ELSE IF e = "\\" THEN scan_string(text, i + 2, acc \o "\\")
                 ELSE IF e = "/" THEN scan_string(text, i + 2, acc \o "/")
                 ELSE IF e = "n" THEN scan_string(text, i + 2, acc \o Newline)
                 ELSE ScanError
        ELSE scan_string(text, i + 1, acc \o c)

RECURSIVE scan_digits(_, _)
scan_digits(text, i) ==
    IF IsDigit(Peek(text, i)) THEN scan_digits(text, i + 1) ELSE i

\* int(digits)
RECURSIVE int_value(_)
int_value(s) ==
    IF Len(s) = 0 THEN 0
    ELSE int_value(SubSeq(s, 1, Len(s) - 1)) * 10 + DigitValue(CharAt(s, Len(s)))

\* NUMBER_RE: an integer, or a float when a fraction follows
scan_number(text, i) ==
    LET start == IF Peek(text, i) = "-" THEN i + 1 ELSE i
        end == scan_digits(text, start)
        frac == scan_digits(text, end + 1)
    IN  IF end = start THEN ScanError
        ELSE IF Peek(text, end) = "."
        THEN IF frac = end + 1 THEN ScanError
             ELSE Scanned(JFloat(SubSeq(text, i, frac - 1)), frac)
        ELSE Scanned(JInt((IF start = i THEN 1 ELSE -1)
                          * int_value(SubSeq(text, start, end - 1))), end)

StartsWith(text, i, word) ==
    /\ i + Len(word) - 1 <= Len(text)
    /\ SubSeq(text, i, i + Len(word) - 1) = word

RECURSIVE scan_value(_, _)
RECURSIVE scan_elements(_, _, _)
RECURSIVE scan_members(_, _, _)
scan_value(text, i0) ==
    LET i == skip_whitespace(text, i0)
        c == Peek(text, i)
    IN  IF c = "\""
        THEN LET s == scan_string(text, i + 1, "")
             IN  IF s.ok THEN Scanned(JStr(s.value), s.pos) ELSE ScanError
        ELSE IF c = "{"
        THEN IF Peek(text, skip_whitespace(text, i + 1)) = "}"
             THEN Scanned(JDict(EmptyDict), skip_whitespace(text, i + 1) + 1)
             ELSE scan_members(text, i + 1, EmptyDict)
        ELSE IF c = "["
        THEN IF Peek(text, skip_whitespace(text, i + 1)) = "]"
             THEN Scanned(JList(<<>>), skip_whitespace(text, i + 1) + 1)
             ELSE scan_elements(text, i + 1, <<>>)
        ELSE IF StartsWith(text, i, "null") THEN Scanned(JNull, i + 4)
        ELSE IF StartsWith(text, i, "true") THEN Scanned(JBool(TRUE), i + 4)
        ELSE IF StartsWith(text, i, "false") THEN Scanned(JBool(FALSE), i + 5)
        ELSE IF c = "-" \/ IsDigit(c) THEN scan_number(text, i)
        ELSE ScanError

\* JSONArray: values separated by commas up to the closing bracket
scan_elements(text, i, acc) ==
    LET v == scan_value(text, i)
        j == skip_whitespace(text, v.pos)
    IN  IF ~v.ok THEN ScanError
        ELSE IF Peek(text, j) = ","
        THEN scan_elements(text, j + 1, Append(acc, v.value))
        ELSE IF Peek(text, j) = "]"
        THEN Scanned(JList(Append(acc, v.value)), j + 1)
        ELSE ScanError

\* JSONObject: "key": value pairs separated by commas up to the closing brace
scan_members(text, i0, acc) ==
    LET i == skip_whitespace(text, i0)
        k == scan_string(text, i + 1, "")
        colon == skip_whitespace(text, k.pos)
        v == scan_value(text, colon + 1)
        j == skip_whitespace(text, v.pos)
    IN  IF Peek(text, i) /= "\"" THEN ScanError
        ELSE IF ~k.ok THEN ScanError
        ELSE IF Peek(text, colon) /= ":" THEN ScanError
        ELSE IF ~v.ok THEN ScanError
        ELSE IF Peek(text, j) = ","
        THEN scan_members(text, j + 1, Put(acc, k.value, v.value))
        ELSE IF Peek(text, j) = "}"
        THEN Scanned(JDict(Put(acc, k.value, v.value)), j + 1)
        ELSE ScanError

\* json.loads(text): the document, or JSONDecodeError
json_loads(text) ==
    LET r == scan_value(text, 1)
    IN  IF r.ok /\ skip_whitespace(text, r.pos) = Len(text) + 1
        THEN [ok |-> TRUE, value |-> r.value]
        ELSE [ok |-> FALSE, value |-> JNull]

-----------------------------------------------------------------------------
(* load_team and save_team.  files maps each path that exists to the bytes *)
(* of the file; procs holds the Python processes that use the files.       *)

TEAM_FILE == "team.json"

\* path.with_name(f"team_backup_{ts}.json"), ts the time in whole seconds
backup_path(path, ts) == "team_backup_" \o int_repr(ts) \o ".json"

\* Path(team_path) if team_path else Path(TEAM_FILE)
path_of(team_path) == IF Truthy(team_path) THEN team_path ELSE TEAM_FILE

Raised(error, fs) == [status |-> error, value |-> None, files |-> fs]

load_team_Synthesize(fs, team_path) ==
    LET path == path_of(team_path)
    IN  IF path \notin DOMAIN fs
        THEN [status |-> "ok", value |-> JDict([agents |-> JDict(EmptyDict)]),
              files |-> Put(fs, path,
                            utf8_encode(json_dumps(
                                JDict([agents |-> JDict(EmptyDict)]), 0)))]
        ELSE [status |-> "ok", value |-> json_loads(utf8_decode(fs[path]).text).value,
              files |-> fs]

\* load_team: the error raised or the document returned, and the files as
\* the call leaves them
load_team(fs, team_path) ==
    LET path == path_of(team_path)
    IN  IF path \notin DOMAIN fs THEN Raised("FileNotFoundError", fs)
        ELSE IF ~utf8_valid(fs[path]) THEN Raised("UnicodeDecodeError", fs)
        ELSE IF \E i \in 1..Len(fs[path]) : fs[path][i] = 0
        THEN Raised("JSONDecodeError", fs)
        ELSE LET r == json_loads(utf8_decode(fs[path]).text)
             IN  IF r.ok THEN [status |-> "ok", value |-> r.value, files |-> fs]
                 ELSE Raised("JSONDecodeError", fs)

save_backup_Skip(fs, path, backup, ts) == fs

\* save_team lines 28-31: shutil.copy2(path, backup_path)
save_backup(fs, path, backup, ts) ==
    IF backup /\ path \in DOMAIN fs
    THEN Put(fs, backup_path(path, ts), fs[path])
    ELSE fs

\* save_team line 33: open(path, "w") creates the file or truncates it
open_w(fs, path) == Put(fs, path, <<>>)

\* save_team line 34: the bytes json.dump hands to the file
dump_bytes(doc) == utf8_encode(json_dumps(doc, 0))

\* write(2) at the offset of the file object: a gap left by another
\* truncation reads as NUL bytes, bytes beyond the chunk stay
write_at(bytes, offset, chunk) ==
    [i \in 1..Max(Len(bytes), offset + Len(chunk)) |->
        IF i > offset /\ i <= offset + Len(chunk) THEN chunk[i - offset]
        ELSE IF i <= Len(bytes) THEN bytes[i]
        ELSE 0]

\* the worker that a process runs on the document it loaded
IOWorker == "scout"

NoDocument == [absent |-> TRUE]

\* doc["agents"][w] and the document with another experience for w
AgentOf(doc, w) == V(V(V(doc)["agents"])[w])
WithAgentExperience(doc, w, exp) ==
    JDict([V(doc) EXCEPT !["agents"] =
        JDict([V(@) EXCEPT ![w] =
            JDict([V(@) EXCEPT !["experience"] = exp])])])

\* a lesson as learn() builds it: every field a str (the timestamp in
\* isoformat)
TypedLesson(lesson) ==
    JDict([k \in DOMAIN lesson |->
              JStr(IF k = "timestamp" THEN int_repr(lesson[k]) ELSE lesson[k])])

\* Agent(w, doc).save_state() with the lessons buffered by learn()
WorkerSaveState(doc, w, buffer) ==
    LET exp == V(AgentOf(doc, w)["experience"])
        cfg == V(AgentOf(doc, w)["config"])
        plainExp == [k \in (DOMAIN exp) \cap {"lessons_learned", "run_count"}
                        |-> V(exp[k])]
        plainCfg == [k \in (DOMAIN cfg) \cap {"max_lessons"} |-> V(cfg[k])]
        r == save_state(plainExp, plainCfg, buffer).experience
    IN  WithAgentExperience(doc, w,
            JDict(Update(exp, [lessons_learned |-> JList(r["lessons_learned"]),
                               run_count |-> JInt(r["run_count"])])))

\* a process: where it is in  team = load_team(); Agent(w, team): learn(),
\* save_state(); save_team(team), the document and the lesson buffer it
\* holds in memory, the state of its open file, and a record of what it
\* saw: the files when its invocation began and when save_team was
\* called, the document it loaded, the document whose save it completed,
\* where it was killed and how many saves had completed before its own;
\* problems and backups are the arguments it may pass to learn() and to
\* save_team(), reads_back whether it loads the file again after saving
Process(pc, doc, fs) ==
    [pc |-> pc, team |-> doc, buffer |-> <<>>,
     backup |-> FALSE, ts |-> 0, pending |-> <<>>, offset |-> 0,
     atStart |-> fs, atSave |-> fs, loaded |-> NoDocument,
     saved |-> NoDocument, killedAt |-> "", rank |-> 0, nsaves |-> 0,
     problems |-> {}, backups |-> {}, reads_back |-> FALSE]

Pids == DOMAIN procs

SavesDone == Cardinality({q \in Pids : procs[q].rank > 0})

\* team = load_team()
Load(p) ==
    /\ \/ procs[p].pc = "start"
       \/ procs[p].pc = "saved" /\ procs[p].reads_back
    /\ LET r == load_team(files, None)
       IN  /\ files' = r.files
           /\ result' = Ret("load_team", None, r.status, r.value)
           /\ procs' = [procs EXCEPT ![p] =
                 IF r.status = "ok"
                 THEN [@ EXCEPT !.pc = "loaded", !.team = r.value,
                                !.loaded = r.value, !.buffer = <<>>]
                 ELSE [@ EXCEPT !.pc = "failed"]]
    /\ UNCHANGED <<team, name, engine, runLessons, clock, learned, saves,
                   atBind, factoryVars, hookCalls>>

IOProblems == {"p", Haifa}

\* agent = Agent(w, team); agent.learn(...)
ProcLearn(p) ==
    /\ procs[p].pc = "loaded"
    /\ IOWorker \in DOMAIN V(V(procs[p].team)["agents"])
    /\ \E problem \in procs[p].problems :
          procs' = [procs EXCEPT ![p] =
              [@ EXCEPT !.pc = "learned",
                        !.buffer = <<TypedLesson(
                            Lesson(clock, "dead_url", problem, "s", None,
                                   None, None))>>]]
    /\ result' = Ret("learn", "dead_url", "ok", <<>>)
    /\ UNCHANGED <<team, name, engine, runLessons, clock, learned, saves,
                   atBind, factoryVars, hookCalls, files>>

\* agent.save_state()
ProcSaveState(p) ==
    /\ procs[p].pc = "learned"
    /\ procs' = [procs EXCEPT ![p] =
          [@ EXCEPT !.pc = "flushed",
                    !.team = WorkerSaveState(@, IOWorker, procs[p].buffer)]]
    /\ result' = Ret("save_state", None, "ok", <<>>)
    /\ UNCHANGED <<team, name, engine, runLessons, clock, learned, saves,
                   atBind, factoryVars, hookCalls, files>>

\* save_team(team, backup=backup), lines 27-31: the backup copy
SaveBegin(p, backup) ==
    /\ procs[p].pc \in {"ready", "flushed"}
    /\ procs[p].nsaves < MaxSaves
    /\ files' = save_backup(files, path_of(None), backup, clock)
    /\ procs' = [procs EXCEPT ![p] =
          [@ EXCEPT !.pc = "backed", !.backup = backup, !.ts = clock,
                    !.atSave = files]]
    /\ UNCHANGED <<team, name, engine, runLessons, clock, learned, saves,
                   atBind, factoryVars, hookCalls, result>>

\* save_team line 33: open(path, "w"); json.dump fills the buffer
SaveOpen(p) ==
    /\ procs[p].pc = "backed"
    /\ files' = open_w(files, path_of(None))
    /\ procs' = [procs EXCEPT ![p] =
          [@ EXCEPT !.pc = "writing", !.pending = dump_bytes(procs[p].team),
                    !.offset = 0]]
    /\ UNCHANGED <<team, name, engine, runLessons, clock, learned, saves,
                   atBind, factoryVars, hookCalls, result>>

\* the buffered writer hands the bytes to the file when its buffer is full
\* and when the file is closed: a document longer than the buffer reaches
\* the file in blocks (here the first half before the rest)
first_block(pending) == SubSeq(pending, 1, Len(pending) \div 2)

\* the buffer is full: a block reaches the file before json.dump is done
SaveWrite(p) ==
    /\ procs[p].pc = "writing"
    /\ procs[p].offset = 0
    /\ first_block(procs[p].pending) /= <<>>
    /\ files' = Put(files, path_of(None),
                    write_at(files[path_of(None)], procs[p].offset,
                             first_block(procs[p].pending)))
    /\ procs' = [procs EXCEPT ![p] =
          [@ EXCEPT !.pending = SubSeq(@, Len(first_block(@)) + 1, Len(@)),
                    !.offset = Len(first_block(procs[p].pending))]]
    /\ UNCHANGED <<team, name, engine, runLessons, clock, learned, saves,
                   atBind, factoryVars, hookCalls, result>>

\* the with block of lines 33-34 ends: the rest of the buffer reaches the
\* file, the file is closed and save_team returns
SaveClose(p) ==
    /\ procs[p].pc = "writing"
    /\ files' = Put(files, path_of(None),
                    write_at(files[path_of(None)], procs[p].offset,
                             procs[p].pending))
    /\ procs' = [procs EXCEPT ![p] =
          [@ EXCEPT !.pc = "saved", !.saved = procs[p].team,
                    !.pending = <<>>, !.offset = @ + Len(procs[p].pending),
                    !.rank = SavesDone + 1, !.nsaves = @ + 1,
                    !.atStart = files']]
    /\ result' = Ret("save_team", None, "ok", <<>>)
    /\ UNCHANGED <<team, name, engine, runLessons, clock, learned, saves,
                   atBind, factoryVars, hookCalls>>

\* the process is killed from outside: what it held in memory is gone,
\* what it wrote stays
Kill(p) ==
    /\ procs[p].pc \in {"start", "ready", "loaded", "learned", "flushed",
                        "backed", "writing"}
    /\ procs' = [procs EXCEPT ![p] =
          [@ EXCEPT !.pc = "killed", !.killedAt = procs[p].pc]]
    /\ UNCHANGED <<team, name, engine, runLessons, clock, learned, saves,
                   atBind, factoryVars, hookCalls, files, result>>

\* a second passes
Tick ==
    /\ clock < MaxTicks
    /\ clock' = clock + 1
    /\ UNCHANGED <<team, name, engine, runLessons, learned, saves, atBind,
                   factoryVars, hookCalls, ioVars, result>>

ProcLoad == \E p \in Pids : Load(p)
ProcLearns == \E p \in Pids : ProcLearn(p)
ProcSavesState == \E p \in Pids : ProcSaveState(p)
ProcSaveBegin == \E p \in Pids : \E backup \in procs[p].backups : SaveBegin(p, backup)
ProcSaveOpen == \E p \in Pids : SaveOpen(p)
ProcSaveWrite == \E p \in Pids : SaveWrite(p)
ProcSaveClose == \E p \in Pids : SaveClose(p)
ProcKill == \E p \in Pids : Kill(p)

NextIO ==
    \/ ProcLoad
    \/ ProcLearns
    \/ ProcSavesState
    \/ ProcSaveBegin
    \/ ProcSaveOpen
    \/ ProcSaveWrite
    \/ ProcSaveClose
    \/ ProcKill
    \/ Tick

\* the documents on disk and in memory
IOLesson ==
    JDict([timestamp |-> JStr("0"), category |-> JStr("dead_url"),
           problem |-> JStr("a \"b\" \\ c"), solution |-> JStr("s")])

IODoc(city, lessons) ==
    JDict([project_id |-> JStr("demo"),
           city |-> city,
           agents |-> JDict([scout |->
               JDict([role |-> JStr("scout"),
                      config |-> JDict([max_lessons |-> JInt(2)]),
                      experience |-> JDict([lessons_learned |-> JList(lessons),
                                            run_count |-> JInt(Len(lessons)),
                                            rate |-> JFloat("0.5"),
                                            last |-> JNull,
                                            active |-> JBool(TRUE),
                                            tags |-> JList(<<>>),
                                            delta |-> JInt(-12)])])])])

IODocs ==
    {IODoc(JStr("demo-city"), <<>>),
     IODoc(JStr(Haifa), <<IOLesson>>),
     JDict([agents |-> JDict(EmptyDict)])}

\* the team file is missing, or holds a document saved earlier
IOFiles ==
    {EmptyDict} \cup {[f \in {TEAM_FILE} |-> dump_bytes(d)] : d \in IODocs}

InitIOVars ==
    /\ team = [agents |-> EmptyDict]
    /\ learned = EmptyDict
    /\ name = None
    /\ engine = None
    /\ runLessons = <<>>
    /\ result = Ret("none", None, "ok", <<>>)
    /\ clock = 0
    /\ saves = 0
    /\ atBind = team
    /\ call = [made |-> FALSE]
    /\ newTeam = EmptyDict
    /\ aliased = FALSE
    /\ hookCalls = 0

\* one process: it loads the team file, or holds a document it built
InitIO ==
    /\ InitIOVars
    /\ files \in IOFiles
    /\ \E d \in IODocs \cup {NoDocument} :
          procs = [p \in {1} |->
                     [Process(IF d = NoDocument THEN "start" ELSE "ready",
                              d, files)
                          EXCEPT !.problems = IOProblems,
                                 !.backups = BOOLEAN,
                                 !.reads_back = TRUE]]

SpecIO == InitIO /\ [][NextIO]_vars

\* two processes started on the same team file: each loads it, runs the
\* worker, which learns a lesson of its own, and saves with the default
\* backup=True
InitRace ==
    /\ InitIOVars
    /\ files = [f \in {TEAM_FILE} |-> dump_bytes(IODoc(JStr("demo-city"), <<>>))]
    /\ procs = [p \in {1, 2} |->
                  [Process("start", NoDocument, files)
                      EXCEPT !.problems = IF p = 1 THEN {"p"} ELSE {Haifa},
                             !.backups = {TRUE}]]

NextRace ==
    \/ ProcLoad
    \/ ProcLearns
    \/ ProcSavesState
    \/ ProcSaveBegin
    \/ ProcSaveOpen
    \/ ProcSaveWrite
    \/ ProcSaveClose

SpecRace == InitRace /\ [][NextRace]_vars

-----------------------------------------------------------------------------
(* Properties of load_team and save_team *)

\* the step is a load_team() call of process p
IsLoad(p) ==
    /\ procs[p].pc \in {"start", "saved"}
    /\ procs'[p].pc \in {"loaded", "failed"}

(* C23: load_team on a path that does not exist fails with a not-found     *)
(* error, returns no document, and creates no file at that path (no        *)
(* default document is synthesized).                                       *)
C23_LoadMissing ==
    [][\A p \in Pids :
          IsLoad(p) /\ path_of(None) \notin DOMAIN files =>
              /\ result'["status"] = "FileNotFoundError"
              /\ result'["value"] = None
              /\ procs'[p].pc = "failed"
              /\ procs'[p].team = procs[p].team
              /\ files' = files]_vars

C23_Witness ==
    /\ result["op"] = "load_team"
    /\ result["status"] = "FileNotFoundError"
    /\ procs[1].pc = "failed"
    /\ path_of(None) \notin DOMAIN files

(* C24: backup-on-write ordering.  When save_team(doc, path, backup=true)  *)
(* is called and a file exists at path, the previous content of path is    *)
(* copied to the timestamped backup file before path is overwritten, so    *)
(* after the save the backup holds exactly the pre-save content and path   *)
(* holds doc; when no file exists at path, or backup=false, no backup file *)
(* is created.                                                             *)
C24_BackupBeforeWrite ==
    \A p \in Pids :
        LET path == path_of(None)
            backs_up == procs[p].backup /\ path \in DOMAIN procs[p].atSave
            bak == backup_path(path, procs[p].ts)
        IN  /\ (procs[p].pc \in {"writing", "saved"} /\ backs_up) =>
                  /\ bak \in DOMAIN files
                  /\ files[bak] = procs[p].atSave[path]
            /\ procs[p].pc = "saved" =>
                  /\ path \in DOMAIN files
                  /\ files[path] = dump_bytes(procs[p].team)
            /\ (procs[p].pc \in {"backed", "writing", "saved"} /\ ~backs_up) =>
                  DOMAIN files \ {path} = DOMAIN procs[p].atSave \ {path}

\* a save with a backup over an existing file, and one that makes none
C24_Witness ==
    /\ procs[1].pc = "saved"
    /\ procs[1].backup
    /\ path_of(None) \in DOMAIN procs[1].atSave
    /\ files[path_of(None)] /= procs[1].atSave[path_of(None)]
    /\ files[backup_path(path_of(None), procs[1].ts)]
          = procs[1].atSave[path_of(None)]

(* C25: round-trip fidelity.  For every document D (including documents    *)
(* with non-ASCII text), load_team(path) after save_team(D, path) returns  *)
(* a value deep-equal to D.                                                *)
C25_RoundTrip ==
    \A p \in Pids :
        /\ procs[p].pc = "saved" =>
              /\ load_team(files, None).status = "ok"
              /\ load_team(files, None).value = procs[p].saved
        /\ (procs[p].pc = "loaded" /\ procs[p].nsaves > 0) =>
              procs[p].team = procs[p].saved

\* a document with Hebrew text, quotes and a backslash was saved and loaded
C25_Witness ==
    /\ procs[1].pc = "loaded"
    /\ procs[1].nsaves > 0
    /\ result["op"] = "load_team"
    /\ "city" \in DOMAIN V(procs[1].saved)
    /\ V(procs[1].saved)["city"] = JStr(Haifa)
    /\ \E i \in 1..Len(files[path_of(None)]) : files[path_of(None)][i] > 127
    /\ Len(V(V(AgentOf(procs[1].saved, IOWorker)["experience"])["lessons_learned"])) > 0

(* C27: no partial persistence.  If an invocation is killed at any point   *)
(* before its save completes (before save_state, between save_state and    *)
(* save_team, or in the middle of save_team's write), the file at path     *)
(* holds either the complete document as it was before the invocation or   *)
(* the complete new document, never an empty or partially written one;     *)
(* when killed before save_team starts the file is byte-identical to its   *)
(* pre-invocation content and the buffered lessons are lost.               *)
C27_NoPartialPersistence ==
    \A p \in Pids :
        procs[p].pc = "killed" =>
            LET path == path_of(None)
                before == procs[p].atStart
                as_before == IF path \in DOMAIN before
                             THEN path \in DOMAIN files
                                  /\ files[path] = before[path]
                             ELSE path \notin DOMAIN files
                new == /\ path \in DOMAIN files
                       /\ files[path] = dump_bytes(procs[p].team)
            IN  /\ as_before \/ new
                /\ procs[p].killedAt \in {"start", "ready", "loaded",
                                          "learned", "flushed"} => as_before

(* C26: lost update under concurrent writers.  When two processes each     *)
(* load the same document file, each run a worker lifecycle that learns    *)
(* lessons, and each save to the same path, then in every interleaving the *)
(* final file equals the in-memory document of the process that saved      *)
(* last, and the lessons and run_count increment of the process that saved *)
(* first are absent from it.                                               *)
C26_LastSaveWins ==
    \A first \in Pids, last \in Pids :
        ( /\ procs[first].pc = "saved" /\ procs[last].pc = "saved"
          /\ procs[first].rank < procs[last].rank
          /\ procs[first].loaded = procs[last].loaded ) =>
            /\ files[path_of(None)] = dump_bytes(procs[last].team)
            /\ load_team(files, None).status = "ok"
            /\ load_team(files, None).value = procs[last].team
            /\ load_team(files, None).value /= procs[first].team

-----------------------------------------------------------------------------
(* new_team_from_template (agent_framework/team_factory.py).  The          *)
(* templates are the files templates/<name>.json next to the module.       *)

TEMPLATES_DIR == "templates/"

\* templates_dir / f"{template_name}.json"
template_path(template_name) == TEMPLATES_DIR \o template_name \o ".json"

EndsWith(text, word) ==
    /\ Len(word) <= Len(text)
    /\ SubSeq(text, Len(text) - Len(word) + 1, Len(text)) = word

\* [f.stem for f in templates_dir.glob("*.json")]
available_templates(fs) ==
    {SubSeq(f, Len(TEMPLATES_DIR) + 1, Len(f) - Len(".json")) :
        f \in {g \in DOMAIN fs : /\ StartsWith(g, 1, TEMPLATES_DIR)
                                 /\ EndsWith(g, ".json")
                                 /\ Len(g) > Len(TEMPLATES_DIR) + Len(".json")}}

\* a value of the top level of a document without its type
RECURSIVE Plain(_)
Plain(x) ==
    IF IsNull(x) THEN None
    ELSE IF IsDict(x) THEN [k \in DOMAIN V(x) |-> Plain(V(x)[k])]
    ELSE IF IsList(x) THEN [i \in 1..Len(V(x)) |-> Plain(V(x)[i])]
    ELSE V(x)

\* the document json.load returns, as create_team takes it: the top level
\* and the table of workers plain, the sections of a worker typed
FromJson(doc) ==
    [k \in DOMAIN V(doc) |->
        IF k = "agents"
        THEN [w \in DOMAIN V(V(doc)[k]) |-> V(V(V(doc)[k])[w])]
        ELSE Plain(V(doc)[k])]

\* the document create_team returns, as json.dump takes it
ToJson(t) ==
    JDict([k \in DOMAIN t |->
        IF k = "agents"
        THEN JDict([w \in DOMAIN t[k] |-> JDict(t[k][w])])
        ELSE IF k = "universal_knowledge"
        THEN JDict([x \in DOMAIN t[k] |-> JInt(t[k][x])])
        ELSE IF t[k] = None THEN JNull
        ELSE JStr(t[k])])

TemplateNotFound(template_name, fs) ==
    [status |-> "FileNotFoundError",
     message |-> [template |-> template_name,
                  available |-> available_templates(fs)],
     value |-> None, files |-> fs]

\* create_team(source_team=template, ..., output_path=output_path): the
\* document returned and the files once it is saved (lines 99-102)
create_and_save(fs, template, project_id, project_meta, agent_overrides, output_path, today) ==
    LET new_team == create_team(template, project_id, project_meta,
                                agent_overrides, today).new_team
    IN  [status |-> "ok", message |-> None, value |-> new_team,
         files |-> IF Truthy(output_path)
                   THEN Put(fs, output_path, dump_bytes(ToJson(new_team)))
                   ELSE fs]

new_team_from_template_Fallback(fs, template_name, project_id, project_meta, agent_overrides, output_path, today) ==
    LET resolved == IF template_path(template_name) \in DOMAIN fs
                   THEN template_name
                   ELSE CHOOSE n \in available_templates(fs) \cup {template_name} :
                           n \in available_templates(fs)
                           \/ available_templates(fs) = {}
    IN  IF template_path(resolved) \notin DOMAIN fs
        THEN create_and_save(fs, [agents |-> EmptyDict], project_id,
                             project_meta, EmptyDict, output_path, today)
        ELSE create_and_save(fs,
                 FromJson(json_loads(utf8_decode(fs[template_path(resolved)]).text).value),
                 project_id, project_meta, agent_overrides, output_path, today)

\* new_team_from_template: the error raised or the document returned, and
\* the files as the call leaves them
new_team_from_template(fs, template_name, project_id, project_meta, agent_overrides, output_path, today) ==
    IF template_path(template_name) \notin DOMAIN fs
    THEN TemplateNotFound(template_name, fs)
    ELSE LET r == load_team(fs, template_path(template_name))
         IN  IF r.status /= "ok"
             THEN [status |-> r.status, message |-> None, value |-> None,
                   files |-> fs]
             ELSE create_and_save(fs, FromJson(r.value), project_id,
                                  project_meta, agent_overrides, output_path,
                                  today)

(* SpecTemplate: a deployment with some templates installed calls          *)
(* new_team_from_template once; call keeps the arguments and the files as  *)
(* the call found them.                                                    *)

TemplateDoc(extra) ==
    JDict(Update([project_id |-> JStr("template"),
                  created |-> JStr("2020-01-01"),
                  universal_knowledge |-> JDict([x |-> JInt(1)]),
                  agents |-> JDict([scout |->
                      JDict([role |-> JStr("scout"),
                             config |-> JDict([depth |-> JInt(1)]),
                             experience |->
                                 JDict([lessons_learned |-> JList(<<JLesson(1)>>),
                                        run_count |-> JInt(3),
                                        format_priority |-> JStr("pdf-first"),
                                        note |-> JStr(Haifa)])])])],
                 extra))

\* the names a caller may ask for, and the templates installed
TemplateNames == {"blank", "city", "nope"}

TemplateFiles ==
    {EmptyDict,
     [f \in {template_path("blank")} |-> dump_bytes(TemplateDoc(EmptyDict))],
     [f \in {template_path("blank"), template_path("city")} |->
         IF f = template_path("blank")
         THEN dump_bytes(TemplateDoc(EmptyDict))
         ELSE dump_bytes(TemplateDoc([city |-> JStr("demo-city")]))]}

OutputPaths == {None, "out/team.json"}

TemplateOverrides ==
    {EmptyDict,
     [scout |-> [config |-> JDict([depth |-> JInt(5)])]],
     [ghost |-> [config |-> JDict([depth |-> JInt(5)])]]}

TemplateMetas == {EmptyDict, [city_name |-> "Haifa"]}

InitTemplate ==
    /\ InitIOVars
    /\ procs = EmptyDict
    /\ \E fs \in TemplateFiles, out \in {EmptyDict,
                [f \in {"out/team.json"} |-> dump_bytes(JDict(EmptyDict))]} :
          files = Update(fs, out)

NewTeamFromTemplate ==
    /\ ~call.made
    /\ \E template_name \in TemplateNames, project_id \in ProjectIds,
          project_meta \in TemplateMetas, agent_overrides \in TemplateOverrides,
          output_path \in OutputPaths :
          LET r == new_team_from_template(files, template_name, project_id,
                       project_meta, agent_overrides, output_path, Today)
          IN  /\ files' = r.files
              /\ newTeam' = IF r.status = "ok" THEN r.value ELSE newTeam
              /\ call' = [made |-> TRUE, template_name |-> template_name,
                          project_id |-> project_id,
                          project_meta |-> project_meta,
                          agent_overrides |-> agent_overrides,
                          output_path |-> output_path, files |-> files]
              /\ result' = [op |-> "new_team_from_template",
                            arg |-> template_name, status |-> r.status,
                            value |-> r.value, message |-> r.message]
    /\ UNCHANGED <<team, name, engine, runLessons, clock, learned, saves,
                   atBind, aliased, hookCalls, procs>>

\* the caller loads what was saved at output_path
TemplateReadBack ==
    /\ call.made
    /\ result["op"] = "new_team_from_template"
    /\ result["status"] = "ok"
    /\ Truthy(call.output_path)
    /\ LET r == load_team(files, call.output_path)
       IN  /\ files' = r.files
           /\ result' = Ret("load_team", call.output_path, r.status, r.value)
    /\ UNCHANGED <<team, name, engine, runLessons, clock, learned, saves,
                   atBind, factoryVars, hookCalls, procs>>

NextTemplate == NewTeamFromTemplate \/ TemplateReadBack

SpecTemplate == InitTemplate /\ [][NextTemplate]_vars

(* C22: new_team_from_template with a template name that does not resolve  *)
(* to a bundled template fails with an error whose message lists the names *)
(* of all available templates, returns no document and writes no file      *)
(* (output_path is left untouched); with an existing template it returns   *)
(* exactly what create_team returns for the template's content.            *)
C22_TemplateNotFound ==
    (call.made /\ result["op"] = "new_team_from_template") =>
        IF template_path(call.template_name) \notin DOMAIN call.files
        THEN /\ result["status"] = "FileNotFoundError"
             /\ result["message"].template = call.template_name
             /\ result["message"].available =
                   {n \in TemplateNames : template_path(n) \in DOMAIN call.files}
             /\ result["value"] = None
             /\ newTeam = EmptyDict
             /\ files = call.files
        ELSE LET content == FromJson(json_loads(utf8_decode(
                     call.files[template_path(call.template_name)]).text).value)
                 created == create_team(content, call.project_id,
                                call.project_meta, call.agent_overrides,
                                Today).new_team
             IN  /\ result["status"] = "ok"
                 /\ result["value"] = created
                 /\ newTeam = created

\* an unknown name was asked for with templates installed and an
\* output_path given
C22_Witness ==
    /\ call.made
    /\ result["op"] = "new_team_from_template"
    /\ result["status"] = "FileNotFoundError"
    /\ result["message"].available = {"blank", "city"}
    /\ call.output_path = "out/team.json"
    /\ "out/team.json" \notin DOMAIN files

----------------------------------------------------------------------------
(* C31: blocked is idempotently retryable.  Every run() of a phase worker  *)
(* that returns blocked leaves the entire document unchanged, run_count    *)
(* and lessons_learned included, however often it is repeated; and a       *)
(* run() made when the declared predecessor's experience.status is         *)
(* "complete" returns a non-blocked result.                                *)
C31_BlockedRetryable ==
    [][ result'["op"] = "run"
        => /\ result'["status"] = "blocked" => team' = team
           /\ (DependsOn \in DOMAIN Agents /\ StatusOf(DependsOn) = "complete")
              => result'["status"] /= "blocked" ]_vars

\* the worker deposited a lesson in an invocation that ended blocked (the
\* lesson was never stored), its predecessor has completed since, and the
\* worker's run() on a fresh object has returned ready
C31_Witness ==
    /\ result["op"] = "run"
    /\ result["status"] = "ready"
    /\ DependsOn \in DOMAIN Agents
    /\ StatusOf(DependsOn) = "complete"
    /\ learned[name] /= <<>>
    /\ Lessons(name) = <<>>
    /\ RunCount(name) = 1

----------------------------------------------------------------------------
(* SpecRecallTypes: _recall_by_types() called on pipeline documents whose  *)
(* workers already hold lessons of several categories, directly and        *)
(* through DbArchitectAgent.run, which returns its value.                  *)

RecallLesson(ts, c) ==
    [timestamp |-> ts, category |-> c, problem |-> "p", solution |-> "s"]

\* a lesson written without a category: lesson.get("category") is None
UncategorisedLesson == [timestamp |-> 9, problem |-> "p", solution |-> "s"]

RecallTypeConfigs ==
    {[depends_on |-> "auditor"]}
    \cup {[depends_on |-> "auditor", recall_types |-> T]
          : T \in {{}, {"data_flow"}, {"data_flow", "shadow_risk"}}}

AuditorExperiences ==
    {[lessons_learned |-> ls, run_count |-> 1] : ls \in
        {<<>>,
         <<RecallLesson(1, "data_flow"), RecallLesson(2, "shadow_risk"),
           UncategorisedLesson, RecallLesson(3, "data_flow")>>}}
    \cup {[lessons_learned |-> <<RecallLesson(1, "shadow_risk")>>,
           run_count |-> 1, status |-> "complete", completed_at |-> 0]}

RecallTeams ==
    {[project_id |-> "demo",
      universal_knowledge |-> [x |-> 1],
      agents |-> [w \in PipelineWorkers |->
         CASE w = "auditor" ->
                [role |-> w, config |-> [source_path |-> "."], experience |-> a]
           [] w = "db_architect" ->
                [role |-> w, config |-> c,
                 experience |-> IF own THEN [lessons_learned |->
                                               <<RecallLesson(4, "data_flow")>>]
                                ELSE EmptyDict]
           [] w = "cleanup" ->
                [role |-> w, config |-> PipelineConfig(w),
                 experience |-> [lessons_learned |->
                     <<RecallLesson(5, "shadow_risk"), RecallLesson(6, "data_flow"),
                       RecallLesson(7, "regression")>>]]
           [] OTHER ->
                [role |-> w, config |-> PipelineConfig(w), experience |-> EmptyDict]]]
     : a \in AuditorExperiences, c \in RecallTypeConfigs, own \in BOOLEAN}

InitRecallTypes ==
    /\ team \in RecallTeams
    /\ learned = [w \in PipelineWorkers |-> <<>>]
    /\ InitWorker

BindRecall ==
    /\ result["op"] /= "bind"
    /\ \E n \in PipelineWorkers : Bind(n, None)

\* self._recall_by_types() on the live worker object
RecallByTypes ==
    /\ name \in PipelineWorkers
    /\ result["op"] = "bind"
    /\ result' = Ret("_recall_by_types", name, "ok",
                     _recall_by_types(team, Config(name)))
    /\ UNCHANGED <<team, name, engine, runLessons, clock, learned, saves, atBind>>
    /\ UNCHANGED <<factoryVars, ioVars>>
    /\ hookCalls' = 0

RecallDeposit ==
    /\ name = "db_architect"
    /\ saves = 0
    /\ clock < MaxDeposits
    /\ Learn("data_flow", "p", "s", None, None)

RecallRun == saves = 0 /\ DbArchitectRun

NextRecallTypes ==
    \/ BindRecall
    \/ RecallByTypes
    \/ RecallDeposit
    \/ RecallRun

SpecRecallTypes == InitRecallTypes /\ [][NextRecallTypes]_vars

\* config.recall_types of worker w, empty when missing
RecallTypesOf(w) == Get(Config(w), "recall_types", {})

\* the stored lessons of worker w whose category is in T, in stored order
LessonsOfTypes(w, T) ==
    SelectSeq(Lessons(w), LAMBDA l : "category" \in DOMAIN l /\ l["category"] \in T)

\* those lessons of every worker of the document, in worker order
AllLessonsOfTypes(T) ==
    LET of(i) == IF Phases[i] \in DOMAIN Agents
                 THEN LessonsOfTypes(Phases[i], T) ELSE <<>>
    IN  of(1) \o of(2) \o of(3) \o of(4) \o of(5)

(* C32: cross-worker recall.  _recall_by_types() of a phase worker with    *)
(* config.recall_types = T returns exactly the lessons of every worker of  *)
(* the document, its own included, whose category is in T, grouped in      *)
(* worker order and in each worker's stored order; it returns the empty    *)
(* list when T is empty or missing; and it modifies no worker's            *)
(* experience.  DbArchitectAgent.run returns that list as computed after   *)
(* its save_state().                                                       *)
C32_CrossWorkerRecall ==
    [][ /\ result'["op"] = "_recall_by_types"
          => /\ result'["value"] = AllLessonsOfTypes(RecallTypesOf(name))
             /\ RecallTypesOf(name) = {} => result'["value"] = <<>>
             /\ team' = team
        /\ (result'["op"] = "run" /\ result'["status"] = "ready")
          => result'["value"] = AllLessonsOfTypes(RecallTypesOf(name))' ]_vars

C32_Witness ==
    /\ result["op"] = "_recall_by_types"
    /\ name = "db_architect"
    /\ RecallTypesOf(name) = {"data_flow"}
    /\ Len(result["value"]) = 4
    /\ Len(Lessons("auditor")) = 4
    /\ Len(Lessons("cleanup")) = 3
    /\ Lessons(name) /= <<>>

----------------------------------------------------------------------------
(* jobs/file_scanner/agent.py : ScannerAgent *)

Scanner == "scanner"

\* a file os.walk meets: the sub-directories it lies under (below the
\* scanned directory), its name and suffix, and what os.stat gives (the
\* size and time, or the OSError raised)
WalkedFile(path, under, filename, ext, stat) ==
    [path |-> path, under |-> under, filename |-> filename, ext |-> ext,
     stat |-> stat]

\* the directories on disk
DirSystem ==
    [src |-> [status |-> "ok",
              walk |-> <<WalkedFile("src/a.py", <<>>, "a.py", ".py",
                                    [size |-> 1, modified |-> 1]),
                         WalkedFile("src/new.py", <<>>, "new.py", ".py",
                                    [size |-> 2, modified |-> 2]),
                         WalkedFile("src/x.tmp", <<>>, "x.tmp", ".tmp",
                                    [error |-> "OSError"]),
                         WalkedFile("src/.git/c.py", <<".git">>, "c.py", ".py",
                                    [size |-> 3, modified |-> 3])>>],
     docs |-> [status |-> "ok",
               walk |-> <<WalkedFile("docs/r.md", <<>>, "r.md", ".md",
                                     [size |-> 4, modified |-> 4])>>],
     gone_dir |-> [status |-> "missing", walk |-> <<>>],
     lost_dir |-> [status |-> "missing", walk |-> <<>>]]

\* fnmatch.fnmatch for the patterns "*", "*suffix" and plain names
fnmatch(filename, pattern) ==
    IF pattern = "*" THEN TRUE
    ELSE IF Len(pattern) > 0 /\ SubSeq(pattern, 1, 1) = "*"
         THEN EndsWith(filename, SubSeq(pattern, 2, Len(pattern)))
         ELSE filename = pattern

\* ScannerAgent._matches_patterns
_matches_patterns(config, filename) ==
    LET excludes == Get(config, "exclude_patterns", <<>>)
        includes == Get(config, "include_patterns", <<"*">>)
    IN  /\ ~\E i \in 1..Len(excludes) : fnmatch(filename, excludes[i])
        /\ \E i \in 1..Len(includes) : fnmatch(filename, includes[i])

\* ScannerAgent._classify: the first category, in dict order, that lists ext
_classify(t, ext) ==
    LET knowledge == Get(t, "universal_knowledge", EmptyDict)
        categories == Get(knowledge, "common_extensions", <<>>)
        found == {i \in 1..Len(categories) :
                     \E j \in 1..Len(categories[i].v) : categories[i].v[j] = ext}
    IN  IF found = {} THEN "other"
        ELSE categories[CHOOSE i \in found : \A j \in found : i <= j].k

\* what the loops of run() have built so far: current_snapshot, the
\* classified paths and the lessons learnt
ScanState == [snapshot |-> EmptyDict, classified |-> <<>>, lessons |-> <<>>]

\* lines 86-106: one file met by os.walk
scan_file(sofar, f, t, config, now, selfEngine) ==
    LET excludes == Get(config, "exclude_patterns", <<>>)
        include_ext == Get(config, "include_extensions", <<>>)
        pruned == \E d \in 1..Len(f.under), p \in 1..Len(excludes) :
                      fnmatch(f.under[d], excludes[p])
        skipped == \/ pruned
                   \/ ~_matches_patterns(config, f.filename)
                   \/ /\ include_ext /= <<>>
                      /\ ~\E i \in 1..Len(include_ext) : include_ext[i] = f.ext
    IN  IF skipped THEN sofar
        ELSE IF "error" \in DOMAIN f.stat
        THEN [sofar EXCEPT !.lessons =
                 Append(@, Lesson(now + Len(@) + 1, "scan_error",
                                  "Cannot stat " \o f.path, "OSError", f.path,
                                  None, selfEngine))]
        ELSE [sofar EXCEPT
                 !.snapshot = Put(@, f.path, f.stat),
                 !.classified = Append(@, [path |-> f.path,
                                           category |-> _classify(t, f.ext)])]

\* lines 80-106: the files of one existing directory, in walk order
RECURSIVE scan_files(_, _, _, _, _, _)
scan_files(sofar, walk, t, config, now, selfEngine) ==
    IF walk = <<>> THEN sofar
    ELSE CHOOSE r \in {scan_files(next, Tail(walk), t, config, now, selfEngine)
                       : next \in {scan_file(s, f, t, config, now, selfEngine)
                                   : s \in {sofar}, f \in {Head(walk)}}} : TRUE

\* lines 73-78: one directory of scan_dirs
scan_directory(sofar, scan_dir, t, config, now, selfEngine) ==
    IF DirSystem[scan_dir].status = "missing"
    THEN [sofar EXCEPT !.lessons =
             Append(@, Lesson(now + Len(@) + 1, "missing_directory",
                              "Directory not found: " \o scan_dir,
                              "Check path or create directory", scan_dir,
                              None, selfEngine))]
    ELSE scan_files(sofar, DirSystem[scan_dir].walk, t, config, now, selfEngine)

\* lines 73-106: the loop over the directories; now is the time run() began
RECURSIVE scan_directories(_, _, _, _, _, _)
scan_directories(sofar, scan_dirs, t, config, now, selfEngine) ==
    IF scan_dirs = <<>> THEN sofar
    ELSE CHOOSE r \in {scan_directories(next, Tail(scan_dirs), t, config, now,
                                        selfEngine)
                       : next \in {scan_directory(s, Head(scan_dirs), t, config,
                                                  now, selfEngine)
                                   : s \in {sofar}}} : TRUE

\* lines 109-130: the changes since the previous snapshot and their lessons
detect_changes(prev, current, track_changes, now, selfEngine) ==
    IF track_changes /\ prev /= EmptyDict
    THEN LET new == DOMAIN current \ DOMAIN prev
             deleted == DOMAIN prev \ DOMAIN current
             modified == {p \in DOMAIN current \cap DOMAIN prev :
                             current[p] /= prev[p]}
             l1 == IF new /= {}
                   THEN <<Lesson(now + 1, "changes_detected", "new files found",
                                 "Review new files for relevance",
                                 None, None, selfEngine)>>
                   ELSE <<>>
             l2 == IF deleted /= {}
                   THEN <<Lesson(now + Len(l1) + 1, "changes_detected",
                                 "files deleted",
                                 "Check if deletions were intentional",
                                 None, None, selfEngine)>>
                   ELSE <<>>
         IN  [changes |-> [new |-> new, modified |-> modified,
                           deleted |-> deleted],
              lessons |-> l1 \o l2]
    ELSE [changes |-> [new |-> {}, modified |-> {}, deleted |-> {}],
          lessons |-> <<>>]

\* {k: len(v) for k, v in classifications.items()}
classifications(classified) ==
    [c \in {classified[i].category : i \in 1..Len(classified)} |->
        Len(SelectSeq(classified, LAMBDA x : x.category = c))]

\* the end of a run(): the lessons are learnt, exp is what run() made of
\* self.experience, save_state() is called once and value is returned
RunReturn(lessons, exp, value) ==
    /\ clock + Len(lessons) <= MaxLearn
    /\ \E r \in {save_state(l.experience, Config(name), l.buffer)
                 : l \in {learn_all(runLessons, exp, lessons)}} :
          /\ team' = WithExperience(team, name, r.experience)
          /\ runLessons' = r.buffer
    /\ learned' = [learned EXCEPT ![name] = @ \o lessons]
    /\ clock' = clock + Len(lessons)
    /\ result' = Ret("run", name, "ok", value)
    /\ saves' = saves + 1
    /\ hookCalls' = 1
    /\ UNCHANGED <<name, engine, atBind>>
    /\ UNCHANGED ioVars

TaskReturn(lessons, exp, value) ==
    RunReturn(lessons, exp, value) /\ UNCHANGED factoryVars

\* ScannerAgent.run
ScannerRun(directories) ==
    /\ name = Scanner
    /\ RunCount(name) < MaxReviews
    /\ \E scan_dirs \in {IF directories = None \/ directories = <<>>
                         THEN Get(Config(name), "scan_directories", <<>>)
                         ELSE directories} :
       \E sc \in {scan_directories(ScanState, scan_dirs, team, Config(name),
                                   clock, engine)} :
       \E ch \in {detect_changes(Get(Experience(name), "last_scan_snapshot",
                                     EmptyDict),
                                 sc.snapshot,
                                 Get(Config(name), "track_changes", TRUE),
                                 clock + Len(sc.lessons), engine)} :
          TaskReturn(sc.lessons \o ch.lessons,
                     Put(Put(Experience(name), "last_scan_snapshot", sc.snapshot),
                         "total_files_seen", Cardinality(DOMAIN sc.snapshot)),
                     [total_files |-> Cardinality(DOMAIN sc.snapshot),
                      classifications |-> classifications(sc.classified),
                      changes |-> ch.changes,
                      files |-> DOMAIN sc.snapshot])

----------------------------------------------------------------------------
(* jobs/log_analyzer/agent.py : LogAnalyzerAgent *)

Analyzer == "analyzer"

\* log_analyzer/agent.py line 59: config.get("tail_lines", 1000)
DefaultTailLines == 1000

\* a log line and the regular expressions re.search finds in it
LogLine(text, matches) == [text |-> text, matches |-> matches]

\* the log files on disk; a position is counted in lines
LogSystem ==
    [app |-> [status |-> "ok",
              lines |-> <<LogLine("started", {}),
                          LogLine("", {}),
                          LogLine("ERROR db down", {"error", "down"}),
                          LogLine("warning: slow", {"warn"})>>],
     noisy |-> [status |-> "ok",
                lines |-> [i \in 1..6 |-> LogLine("ERROR db down",
                                                  {"error", "down"})]],
     gone_log |-> [status |-> "missing", lines |-> <<>>],
     lost_log |-> [status |-> "missing", lines |-> <<>>],
     dir_log |-> [status |-> "unreadable", lines |-> <<>>]]

\* LogAnalyzerAgent._categorize_line: the first severity, in severity order,
\* with a pattern found in the line, and that pattern; (None, None) when
\* there is none
_categorize_line(config, line) ==
    LET patterns == Get(config, "error_patterns", EmptyDict)
        severity_order == Get(config, "severity_order",
                              <<"critical", "error", "warning", "info">>)
        of(s) == Get(patterns, severity_order[s], <<>>)
        hit(s) == {p \in 1..Len(of(s)) : of(s)[p] \in line.matches}
        found == {s \in 1..Len(severity_order) : hit(s) /= {}}
    IN  IF found = {} THEN [severity |-> None, pattern |-> None]
        ELSE LET s == CHOOSE x \in found : \A y \in found : x <= y
                 p == CHOOSE x \in hit(s) : \A y \in hit(s) : x <= y
             IN  [severity |-> severity_order[s], pattern |-> of(s)[p]]

\* what the loop of run() has built so far: the categorised entries,
\* current_frequency (a dict in insertion order), self._last_positions and
\* the lessons learnt
AnalysisState(last_positions) ==
    [entries |-> <<>>, frequency |-> <<>>, positions |-> last_positions,
     lessons |-> <<>>]

_read_log_Silent(sofar, config, log_path, now, selfEngine) ==
    LET log == LogSystem[log_path]
    IN  IF log.status = "ok"
        THEN [lines |-> log.lines,
              sofar |-> [sofar EXCEPT !.positions =
                            Put(@, log_path, Len(log.lines))]]
        ELSE [lines |-> <<>>, sofar |-> sofar]

\* LogAnalyzerAgent._read_log: the lines returned, with self._last_positions
\* and the lessons as the call leaves them
_read_log(sofar, config, log_path, now, selfEngine) ==
    LET log == LogSystem[log_path]
        tail_lines == Get(config, "tail_lines", DefaultTailLines)
        last_pos == Get(sofar.positions, log_path, 0)
        read == IF last_pos > 0 THEN SliceFrom(log.lines, last_pos)
                ELSE log.lines
    IN  IF log.status = "missing"
        THEN [lines |-> <<>>,
              sofar |-> [sofar EXCEPT !.lessons =
                  Append(@, Lesson(now + Len(@) + 1, "missing_log",
                                   "Log file not found: " \o log_path,
                                   "Check path or wait for log creation",
                                   log_path, None, selfEngine))]]
        ELSE IF log.status = "unreadable"
        THEN [lines |-> <<>>,
              sofar |-> [sofar EXCEPT !.lessons =
                  Append(@, Lesson(now + Len(@) + 1, "read_error",
                                   "Cannot read " \o log_path, "OSError",
                                   log_path, None, selfEngine))]]
        ELSE [lines |-> IF last_pos = 0 /\ Len(read) > tail_lines
                        THEN SliceFrom(read, 0 - tail_lines) ELSE read,
              sofar |-> [sofar EXCEPT !.positions =
                            Put(@, log_path, Len(log.lines))]]

\* lines 105-117: one line of a log
categorize_line(sofar, config, log_path, line) ==
    CHOOSE r \in
        {IF line.text = "" \/ c.severity = None THEN sofar
         ELSE [sofar EXCEPT
                 !.entries = Append(@, [severity |-> c.severity,
                                        file |-> log_path,
                                        line |-> SubSeq(line.text, 1,
                                                     Min(Len(line.text), 500)),
                                        pattern |-> c.pattern]),
                 !.frequency = od_incr(@, c.severity \o ":" \o c.pattern)]
         : c \in {_categorize_line(config, line)}} : TRUE

\* lines 104-117: the lines of one log, in order
RECURSIVE categorize_lines(_, _, _, _)
categorize_lines(sofar, lines, config, log_path) ==
    IF lines = <<>> THEN sofar
    ELSE CHOOSE r \in {categorize_lines(next, Tail(lines), config, log_path)
                       : next \in {categorize_line(s, config, log_path, l)
                                   : s \in {sofar}, l \in {Head(lines)}}} : TRUE

\* lines 100-117: the loop over the logs; now is the time run() began
RECURSIVE analyze_logs(_, _, _, _, _)
analyze_logs(sofar, paths, config, now, selfEngine) ==
    IF paths = <<>> THEN sofar
    ELSE CHOOSE r \in
             {analyze_logs(next, Tail(paths), config, now, selfEngine)
              : next \in {categorize_lines(rd.sofar, rd.lines, config, Head(paths))
                          : rd \in {_read_log(s, config, Head(paths), now,
                                              selfEngine) : s \in {sofar}}}}
             : TRUE

\* the count stored under key in an ordered dict, 0 when absent
od_get(od, key) ==
    IF \E i \in 1..Len(od) : od[i].k = key
    THEN od[CHOOSE i \in 1..Len(od) : od[i].k = key].v
    ELSE 0

\* line 124: count > prev_count * 1.5 and count > 5
is_rising(count, prev_count) == 2 * count > 3 * prev_count /\ count > 5

\* lines 120-130: the trends and the lessons of the keys that are rising
trend_alerts(frequency, prev_frequency, now, selfEngine) ==
    LET rising == SelectSeq(frequency,
                     LAMBDA e : is_rising(e.v, od_get(prev_frequency, e.k)))
    IN  [trends |-> [i \in 1..Len(rising) |->
                        [key |-> rising[i].k,
                         previous |-> od_get(prev_frequency, rising[i].k),
                         current |-> rising[i].v, trend |-> "increasing"]],
         lessons |-> [i \in 1..Len(rising) |->
                        Lesson(now + i, "trend_alert",
                               "Error pattern increased: " \o rising[i].k,
                               "Investigate root cause", rising[i].k, None,
                               selfEngine)]]

\* {severity: len(entries) for severity, entries in categorized.items()}
summary(entries) ==
    [s \in {entries[i].severity : i \in 1..Len(entries)} |->
        Len(SelectSeq(entries, LAMBDA e : e.severity = s))]

\* LogAnalyzerAgent.run
LogAnalyzerRun(log_paths) ==
    /\ name = Analyzer
    /\ RunCount(name) < MaxReviews
    /\ \E paths \in {IF log_paths = None \/ log_paths = <<>>
                     THEN Get(Config(name), "log_paths", <<>>) ELSE log_paths} :
       \E prev \in {Get(Experience(name), "error_frequency", <<>>)} :
       \E an \in {analyze_logs(
                     AnalysisState(Get(Experience(name),
                                       "last_analyzed_positions", EmptyDict)),
                     paths, Config(name), clock, engine)} :
       \E tr \in {IF Get(Config(name), "track_frequency", TRUE) /\ prev /= <<>>
                  THEN trend_alerts(an.frequency, prev,
                                    clock + Len(an.lessons), engine)
                  ELSE [trends |-> <<>>, lessons |-> <<>>]} :
          TaskReturn(an.lessons \o tr.lessons,
                     Put(Put(Experience(name), "error_frequency", an.frequency),
                         "last_analyzed_positions", an.positions),
                     [summary |-> summary(an.entries),
                      categorized |-> an.entries,
                      frequency |-> an.frequency,
                      trends |-> tr.trends,
                      total_issues |-> Len(an.entries)])

----------------------------------------------------------------------------
(* SpecTasks: a team of the three workers whose run() walks a list of work *)
(* items (files to review, directories to scan, logs to analyse), some of  *)
(* which are missing or cannot be read.  A behaviour invokes one of the    *)
(* workers, any number of times.                                           *)

TaskWorkers == {Reviewer, Scanner, Analyzer}

\* the directories and logs passed to run()
Directories ==
    {None, <<"src">>, <<"gone_dir", "docs">>, <<"gone_dir", "src", "lost_dir">>}

LogPaths ==
    {None, <<"noisy">>, <<"gone_log", "noisy">>, <<"gone_log", "dir_log", "app">>,
     <<"gone_log", "app", "lost_log">>}

\* config of worker w, with max_lessons configured as 1 or left out
TaskConfig(w, capped) ==
    LET base ==
          CASE w = Reviewer -> [anti_patterns |-> <<"eval">>]
            [] w = Scanner -> [scan_directories |-> <<"docs">>,
                               exclude_patterns |-> <<".git">>]
            [] OTHER -> [log_paths |-> <<"app">>,
                         error_patterns |-> [error |-> <<"error">>,
                                             warning |-> <<"warn", "down">>]]
    IN  IF capped THEN Put(base, "max_lessons", 1) ELSE base

\* experience of worker w: fresh, or what earlier runs have left
TaskExperience(w, fresh) ==
    IF fresh THEN EmptyDict
    ELSE CASE w = Reviewer ->
                [lessons_learned |-> <<AntiPatternLesson>>, run_count |-> 1]
           [] w = Scanner ->
                [last_scan_snapshot |->
                    [p \in {"src/a.py", "src/old.py"} |->
                        [size |-> 1, modified |-> 0]],
                 total_files_seen |-> 2, lessons_learned |-> <<>>,
                 run_count |-> 1]
           [] OTHER ->
                [error_frequency |-> <<[k |-> "error:error", v |-> 1]>>,
                 last_analyzed_positions |-> [p \in {"app"} |-> 2],
                 lessons_learned |-> <<>>, run_count |-> 1]

TaskTeams ==
    {[project_id |-> "demo",
      universal_knowledge |->
          [common_extensions |-> <<[k |-> "code", v |-> <<".py">>]>>],
      agents |-> [w \in TaskWorkers |->
                     [role |-> w, config |-> TaskConfig(w, capped),
                      experience |-> TaskExperience(w, fresh)]]]
     : capped \in BOOLEAN, fresh \in BOOLEAN}

InitTasks ==
    /\ team \in TaskTeams
    /\ learned = [w \in TaskWorkers |-> <<>>]
    /\ InitWorker

\* the caller constructs a worker object, and after its run() another
\* object for the same worker
BindTask ==
    /\ name = None \/ result["op"] = "run"
    /\ \E n \in TaskWorkers : (name = None \/ n = name) /\ Bind(n, None)

TaskReview ==
    /\ saves = 0
    /\ \E changed_files \in ChangedFiles : CodeReviewerRun(changed_files)

TaskScan ==
    /\ saves = 0
    /\ \E directories \in Directories : ScannerRun(directories)

TaskAnalyze ==
    /\ saves = 0
    /\ \E log_paths \in LogPaths : LogAnalyzerRun(log_paths)

NextTasks ==
    \/ BindTask
    \/ TaskReview
    \/ TaskScan
    \/ TaskAnalyze

SpecTasks == InitTasks /\ [][NextTasks]_vars

\* the lessons learnt by the step, in order
NewLessons ==
    SubSeq(learned'[name], Len(learned[name]) + 1, Len(learned'[name]))

\* the places of NewLessons whose lesson is about work item x
LessonsAbout(x) ==
    {k \in 1..Len(NewLessons) : Get(NewLessons[k], "context", None) = x}

\* the stored lessons of the live worker after the step
StoredAfter == {Lessons(name)'[j] : j \in 1..Len(Lessons(name)')}

\* the items of a list that are missing or cannot be read
BadFiles(items) ==
    {items[i] : i \in {j \in 1..Len(items) : FileSystem[items[j]].status /= "ok"}}
BadDirectories(items) ==
    {items[i] : i \in {j \in 1..Len(items) : DirSystem[items[j]].status /= "ok"}}
BadLogs(items) ==
    {items[i] : i \in {j \in 1..Len(items) : LogSystem[items[j]].status /= "ok"}}

\* run() went through every readable item of the list: the reviewer
\* reports the anti-patterns of the configured list found in it, the scanner
\* lists its files, the analyser has read it to its end
ReviewedAll(items) ==
    \A i \in 1..Len(items) :
        LET anti_patterns == Get(Config(name), "anti_patterns", <<>>)
            findings == result'["value"].findings
        IN  (/\ FileSystem[items[i]].status = "ok"
             /\ \E p \in 1..Len(anti_patterns) : Hits(items[i], anti_patterns[p]) > 0)
            => \E f \in 1..Len(findings) : findings[f].file = items[i]
ScannedAll(items) ==
    \A i \in 1..Len(items) :
        LET walk == DirSystem[items[i]].walk
        IN  \A f \in 1..Len(walk) :
                (walk[f].under = <<>> /\ "error" \notin DOMAIN walk[f].stat)
                => walk[f].path \in result'["value"].files
AnalyzedAll(items) ==
    \A i \in 1..Len(items) :
        LogSystem[items[i]].status = "ok"
        => Get(Experience(name)'["last_analyzed_positions"], items[i], 0)
           = Len(LogSystem[items[i]].lines)

\* the list run() walks when called with argument arg
ItemsOf(arg, key) ==
    IF arg = None \/ arg = <<>> THEN Get(Config(name), key, <<>>) ELSE arg

\* run() returned normally, called save_state(), and learnt one lesson for
\* each item of bad
Degraded(bad) ==
    /\ result'["op"] = "run"
    /\ result'["status"] = "ok"
    /\ saves' = saves + 1
    /\ RunCount(name)' = RunCount(name) + 1
    /\ \A x \in bad : Cardinality(LessonsAbout(x)) = 1

\* the lesson of every item of bad is stored after the step
AllStored(bad) ==
    \A x \in bad : \A k \in LessonsAbout(x) : NewLessons[k] \in StoredAfter

\* the same, for the lessons followed in this run by fewer than max_lessons
\* later ones
StoredUnlessEvicted(bad) ==
    \A x \in bad : \A k \in LessonsAbout(x) :
        Len(NewLessons) - k < MaxLessonsOf(name) => NewLessons[k] \in StoredAfter

----------------------------------------------------------------------------
(* jobs/web_scraper/agent.py : ScraperAgent *)

Scraper == "scraper"

\* web_scraper/agent.py line 96: config.get("max_retries", 3)
DefaultMaxRetries == 3

\* what urllib.request.urlopen does with a request: it returns a response
\* with a status and a body, or raises HTTPError with a code, URLError, or
\* something else
Page(hrefs) == [kind |-> "response", status |-> 200, content |-> "<a>",
                hrefs |-> hrefs]
EmptyPage == [kind |-> "response", status |-> 200, content |-> "", hrefs |-> <<>>]
HttpError(code) == [kind |-> "HTTPError", status |-> code]
UrlError == [kind |-> "URLError", status |-> 0]

\* a link of a page, as urljoin and urlparse resolve it
Href(absolute, scheme, netloc) ==
    [absolute |-> absolute, scheme |-> scheme, netloc |-> netloc]

dead_urls_ByProblem(exp) ==
    LET dead_lessons == recall(exp, "dead_url").value
    IN  {Get(dead_lessons[i], "problem", "") : i \in 1..Len(dead_lessons)}

\* ScraperAgent._apply_experience: self._dead_urls
dead_urls(exp) ==
    LET dead_lessons == recall(exp, "dead_url").value
    IN  {Get(dead_lessons[i], "context", "") : i \in 1..Len(dead_lessons)}

\* ScraperAgent._fetch: (status, content) and the lesson learnt, if any
_fetch(url, answer, now, selfEngine) ==
    CASE answer.kind = "response" ->
            [status |-> answer.status, content |-> answer.content,
             hrefs |-> answer.hrefs, lessons |-> <<>>]
      [] answer.kind = "HTTPError" ->
            [status |-> answer.status, content |-> None, hrefs |-> <<>>,
             lessons |-> <<>>]
      [] answer.kind = "URLError" ->
            [status |-> 0, content |-> None, hrefs |-> <<>>,
             lessons |-> <<Lesson(now + 1, "connection_error",
                                  "Cannot reach " \o url, "URLError", url,
                                  None, selfEngine)>>]
      [] OTHER ->
            [status |-> 0 - 1, content |-> None, hrefs |-> <<>>,
             lessons |-> <<Lesson(now + 1, "unexpected_error",
                                  "Error fetching " \o url, "Exception", url,
                                  None, selfEngine)>>]

\* ScraperAgent._extract_links
_extract_links(config, hrefs) ==
    LET allowed == Get(config, "allowed_domains", <<>>)
    IN  {hrefs[i].absolute : i \in
            {j \in 1..Len(hrefs) :
                /\ hrefs[j].scheme \in {"http", "https"}
                /\ \/ allowed = <<>>
                   \/ \E a \in 1..Len(allowed) : allowed[a] = hrefs[j].netloc}}

\* lines 107-117: the attempts made for one URL; answers are what urlopen
\* does at the first, second, ... request for it
RECURSIVE fetch_attempts(_, _, _, _, _, _, _)
fetch_attempts(last, url, answers, attempt, max_retries, now, selfEngine) ==
    IF attempt >= max_retries THEN last
    ELSE CHOOSE r \in
        {IF f.status = 429
         THEN fetch_attempts(
                  [f EXCEPT !.lessons = last.lessons \o @,
                            !.requests = last.requests + 1],
                  url, answers, attempt + 1, max_retries, now, selfEngine)
         ELSE [f EXCEPT !.lessons = last.lessons \o @,
                        !.requests = last.requests + 1]
         : f \in {[requests |-> 0] @@
                  _fetch(url, answers[Min(attempt + 1, Len(answers))],
                         now + Len(last.lessons), selfEngine)}} : TRUE

\* what the loop of run() has built so far
ScrapeState ==
    [links |-> {}, successes |-> 0, failures |-> 0, lessons |-> <<>>,
     fetched |-> <<>>]

\* lines 102-135: one entry URL
scrape_url(sofar, url, dead, web, config, now, selfEngine) ==
    IF url \in dead THEN sofar
    ELSE CHOOSE r \in
        {IF f.status = 200 /\ Truthy(f.content)
         THEN [sofar EXCEPT !.links = @ \cup _extract_links(config, f.hrefs),
                            !.successes = @ + 1,
                            !.fetched = @ \o [i \in 1..f.requests |-> url]]
         ELSE [sofar EXCEPT
                 !.failures = @ + 1,
                 !.fetched = @ \o [i \in 1..f.requests |-> url],
                 !.lessons = @ \o f.lessons \o
                    (IF f.status \in {404, 410}
                     THEN <<Lesson(now + Len(@) + Len(f.lessons) + 1,
                                   "dead_url", "URL is dead",
                                   "Skip in future runs", url, None,
                                   selfEngine)>>
                     ELSE IF f.status = 301
                     THEN <<Lesson(now + Len(@) + Len(f.lessons) + 1,
                                   "redirect", "URL redirected",
                                   "Check new location", url, None,
                                   selfEngine)>>
                     ELSE <<>>)]
         : f \in {fetch_attempts(
                     [status |-> 0, content |-> None, hrefs |-> <<>>,
                      lessons |-> <<>>, requests |-> 0],
                     url, web[url], 0, Get(config, "max_retries", DefaultMaxRetries),
                     now + Len(sofar.lessons), selfEngine)}} : TRUE

\* lines 102-135: the loop over the entry URLs; now is the time run() began
RECURSIVE scrape(_, _, _, _, _, _, _)
scrape(sofar, entry_urls, dead, web, config, now, selfEngine) ==
    IF entry_urls = <<>> THEN sofar
    ELSE CHOOSE r \in
        {scrape(next, Tail(entry_urls), dead, web, config, now, selfEngine)
         : next \in {scrape_url(s, Head(entry_urls), dead, web, config, now,
                                selfEngine) : s \in {sofar}}} : TRUE

\* ScraperAgent.run; web is what the network answers during the run
ScraperRun(urls, web) ==
    /\ name = Scraper
    /\ RunCount(name) < MaxReviews
    /\ \E entry_urls \in {IF urls = None \/ urls = <<>>
                          THEN Get(Config(name), "entry_urls", <<>>) ELSE urls} :
       \E sc \in {scrape(ScrapeState, entry_urls, dead_urls(Experience(name)),
                         web, Config(name), clock, engine)} :
          /\ RunReturn(sc.lessons,
                       Put(Put(Put(Experience(name),
                           "success_count",
                           Get(Experience(name), "success_count", 0) + sc.successes),
                           "failure_count",
                           Get(Experience(name), "failure_count", 0) + sc.failures),
                           "discovered_urls",
                           Get(Experience(name), "discovered_urls", {}) \cup sc.links),
                       [discovered_urls |-> sc.links,
                        successes |-> sc.successes,
                        failures |-> sc.failures])
          /\ call' = [made |-> TRUE, urls |-> entry_urls, fetched |-> sc.fetched]
    /\ UNCHANGED <<newTeam, aliased>>

----------------------------------------------------------------------------
(* SpecScraper: a team with a scraper that is invoked again and again,     *)
(* each invocation on a fresh worker object, while the network answers     *)
(* differently from run to run.                                            *)

ScraperWorkers == {Scraper, "parser"}

Urls == {"u", "v"}

UrlLists == {None, <<"u">>, <<"u", "v">>, <<"v", "u">>}

\* what the network may answer for a URL, request after request
WebAnswers ==
    {<<Page(<<Href("v", "https", "site")>>)>>,
     <<EmptyPage>>,
     <<HttpError(404)>>, <<HttpError(410)>>, <<HttpError(301)>>,
     <<HttpError(429), Page(<<Href("mailto:x", "mailto", "")>>)>>,
     <<UrlError>>}

Webs == {[x \in Urls |-> IF x = "u" THEN a ELSE b]
         : a \in WebAnswers, b \in {<<HttpError(404)>>, <<UrlError>>}}

ScraperConfigs ==
    {[entry_urls |-> <<"v", "u">>],
     [entry_urls |-> <<"v", "u">>, max_lessons |-> 1]}

ScraperTeams ==
    {[project_id |-> "demo",
      universal_knowledge |-> [x |-> 1],
      agents |-> [w \in ScraperWorkers |->
         IF w = Scraper
         THEN [role |-> "scraper", config |-> c, experience |-> EmptyDict]
         ELSE [role |-> "parser", config |-> EmptyDict,
               experience |-> [lessons_learned |->
                  <<[timestamp |-> 0, category |-> "dead_url", problem |-> "p",
                     solution |-> "s", context |-> "v"]>>]]]]
     : c \in ScraperConfigs}

InitScraper ==
    /\ team \in ScraperTeams
    /\ learned = [w \in ScraperWorkers |-> <<>>]
    /\ InitWorker

BindScraper ==
    /\ name = None \/ result["op"] = "run"
    /\ Bind(Scraper, None)

ScraperInvoke ==
    /\ saves = 0
    /\ \E urls \in UrlLists, web \in Webs : ScraperRun(urls, web)

NextScraper ==
    \/ BindScraper
    \/ ScraperInvoke

SpecScraper == InitScraper /\ [][NextScraper]_vars

\* the URLs with a dead_url lesson among the lessons the live worker had
\* stored when it was bound
DeadAtBind ==
    {u \in Urls : \E i \in 1..Len(LessonsAtBind) :
        /\ LessonsAtBind[i]["category"] = "dead_url"
        /\ Get(LessonsAtBind[i], "context", None) = u}

(* C34: dead-URL memory across invocations.  Once a scraper run has got    *)
(* 404 or 410 for a URL and its state is saved, every later invocation on  *)
(* the document sends no request for that URL and counts it neither as a   *)
(* success nor as a failure, for as long as the URL's dead_url lesson is   *)
(* still among the stored lessons.                                         *)
C34_DeadUrlsSkipped ==
    (result["op"] = "run" /\ name = Scraper)
    => /\ \A i \in 1..Len(call.fetched) : call.fetched[i] \notin DeadAtBind
       /\ result["value"].successes + result["value"].failures
          = Cardinality({i \in 1..Len(call.urls) : call.urls[i] \notin DeadAtBind})

\* a later run was given a URL found dead by an earlier one and has sent
\* requests for the other URL only
C34_Witness ==
    /\ result["op"] = "run" /\ name = Scraper
    /\ RunCount(name) = 2
    /\ "u" \in DeadAtBind
    /\ call.urls = <<"u", "v">>
    /\ call.fetched = <<"v">>
    /\ result["value"].failures = 1

----------------------------------------------------------------------------
(* SpecFlaky: a test runner invoked again and again, each invocation on a  *)
(* fresh worker object, over a test that passes in some runs and fails in  *)
(* others.                                                                 *)

TestRunner == "test_runner"

FlakyConfigs == {EmptyDict, [flaky_threshold |-> 2]}

FlakyTeams ==
    {[project_id |-> "demo",
      universal_knowledge |-> [x |-> 1],
      agents |-> [w \in {TestRunner} |->
                     [role |-> w, config |-> c, experience |-> EmptyDict]]]
     : c \in FlakyConfigs}

InitFlaky ==
    /\ team \in FlakyTeams
    /\ learned = [w \in {TestRunner} |-> <<>>]
    /\ InitWorker

BindFlaky ==
    /\ name = None \/ result["op"] = "run"
    /\ Bind(TestRunner, None)

FlakyRun ==
    /\ saves = 0
    /\ IsA("TestRunnerAgent")
    /\ RunCount(name) < MaxRuns
    /\ \/ TestRunnerTimeout
       \/ TestRunnerNotFound
       \/ \E results \in TestResults : TestRunnerCompleted(results)

NextFlaky ==
    \/ BindFlaky
    \/ FlakyRun

SpecFlaky == InitFlaky /\ [][NextFlaky]_vars

\* the runs of the test command that came to an end, over all invocations
CompletedRuns ==
    RunCount(TestRunner)
    - Len(SelectCat(learned[TestRunner], {"timeout"}))
    - Len(SelectCat(learned[TestRunner], {"missing_tool"}))

\* the runs in which test t failed, as failure_history has them
FailedRuns(t) ==
    Len(Get(Get(Experience(TestRunner), "failure_history", EmptyDict), t, <<>>))

FailedNow(t) ==
    /\ result["op"] = "run" /\ result["status"] = "completed"
    /\ t \in Get(Get(Experience(TestRunner), "last_run_summary", EmptyDict),
                 "failed_tests", {})

FlakyLessons(t) ==
    SelectSeq(learned[TestRunner],
              LAMBDA l : l["category"] = "flaky_test" /\ l["context"] = t)

(* C35: flaky-test tracking.  When a test has failed in some of the runs   *)
(* and passed in others, over at least flaky_threshold runs, then by the   *)
(* end of a run in which it fails it is in experience.flaky_tests with its *)
(* fail rate; and over all runs at most one flaky_test lesson is learned   *)
(* for it.                                                                 *)
C35_FlakyTracked ==
    name = TestRunner =>
    \A t \in {"t1"} :
       /\ (/\ FailedNow(t)
           /\ CompletedRuns >= Get(Config(TestRunner), "flaky_threshold",
                                   DefaultFlakyThreshold)
           /\ 0 < FailedRuns(t) /\ FailedRuns(t) < CompletedRuns)
          => /\ t \in DOMAIN Get(Experience(TestRunner), "flaky_tests", EmptyDict)
             /\ Experience(TestRunner)["flaky_tests"][t].fail_rate
                = <<FailedRuns(t), CompletedRuns>>
       /\ Len(FlakyLessons(t)) <= 1

\* no run of the program ever records a flaky test: every entry that
\* _update_flaky_tracking appends has status "failed"
FlakyNeverRecorded ==
    name = TestRunner =>
       /\ Get(Experience(TestRunner), "flaky_tests", EmptyDict) = EmptyDict
       /\ FlakyLessons("t1") = <<>>

----------------------------------------------------------------------------
(* project_search.py : search over the project records of PROJECTS_DIR.    *)
(* Texts are strings of the characters of Ord; the Hebrew stand-ins count  *)
(* as letters.                                                             *)

\* the set of stop words of lines 25-30
STOP_WORDS ==
    {"the", "a", "an", "and", "or", "but", "in", "on", "at", "to", "for",
     "of", "with", "by", "is", "it", "my", "that", "this", "was", "are",
     "be", "has", "had", "do", "does", "did", "will", "would", "could",
     "should", "work", "project", "app", "open", "thing", "about", "like"}

\* str.lower() of one character: only A-Z have a lower case here
lower_char(c) == IF Ord[c] \in 65..90 THEN Chr[Ord[c] + 32] ELSE c

\* str.lower()
RECURSIVE str_lower(_)
str_lower(text) ==
    IF Len(text) = 0 THEN ""
    ELSE lower_char(CharAt(text, 1)) \o str_lower(SubSeq(text, 2, Len(text)))

\* str.strip(): the text without its leading and trailing white space
str_strip(text) ==
    LET inked == {i \in 1..Len(text) : Ord[CharAt(text, i)] \notin {32, 10}}
    IN  IF inked = {} THEN ""
        ELSE SubSeq(text, CHOOSE i \in inked : \A j \in inked : i <= j,
                          CHOOSE i \in inked : \A j \in inked : i >= j)

\* str.replace(old, new) for one-character old and new
RECURSIVE str_replace(_, _, _)
str_replace(text, old, new) ==
    IF Len(text) = 0 THEN ""
    ELSE (IF CharAt(text, 1) = old THEN new ELSE CharAt(text, 1))
         \o str_replace(SubSeq(text, 2, Len(text)), old, new)

\* sub in text
str_in(sub, text) ==
    \E i \in 1..(Len(text) - Len(sub) + 1) :
        SubSeq(text, i, i + Len(sub) - 1) = sub

\* a < b for two str objects: by code points, a proper prefix first
str_less(a, b) ==
    \/ Len(a) < Len(b) /\ SubSeq(b, 1, Len(a)) = a
    \/ \E i \in 1..Min(Len(a), Len(b)) :
          /\ SubSeq(a, 1, i - 1) = SubSeq(b, 1, i - 1)
          /\ Ord[CharAt(a, i)] < Ord[CharAt(b, i)]

\* a character matched by [\w\u0590-\u05FF]: a letter, a digit, the
\* underscore, a Hebrew letter
is_word_char(c) ==
    \/ Ord[c] \in 48..57 \/ Ord[c] \in 65..90 \/ Ord[c] \in 97..122
    \/ Ord[c] = 95
    \/ Ord[c] \in 1424..1535

\* re.findall(r'[\w\u0590-\u05FF]+', t) from position i on: the maximal
\* runs of word characters; word is the run that position i continues
RECURSIVE findall_words(_, _, _, _)
findall_words(t, i, word, found) ==
    IF i > Len(t) THEN (IF word = "" THEN found ELSE found \cup {word})
    ELSE IF is_word_char(CharAt(t, i))
    THEN findall_words(t, i + 1, word \o CharAt(t, i), found)
    ELSE findall_words(t, i + 1, "", IF word = "" THEN found ELSE found \cup {word})

\* tokenize
tokenize(text) ==
    CHOOSE r \in {findall_words(t, 1, "", {}) : t \in {str_lower(text)}} : TRUE

\* the elements of a list, as set(...) has them
ListSet(s) == {s[i] : i \in 1..Len(s)}

\* the names of a directory in ascending order
RECURSIVE sorted_names(_)
sorted_names(S) ==
    IF S = {} THEN <<>>
    ELSE CHOOSE r \in
        {<<x>> \o sorted_names(S \ {x})
         : x \in {CHOOSE y \in S : \A z \in S \ {y} : str_less(y, z)}} : TRUE

Reversed(s) == [i \in 1..Len(s) |-> s[Len(s) + 1 - i]]

ends_with(text, suffix) ==
    /\ Len(text) >= Len(suffix)
    /\ SubSeq(text, Len(text) - Len(suffix) + 1, Len(text)) = suffix

\* load_all_projects: the records of the .json files of PROJECTS_DIR, in the
\* order os.listdir gives them, which is the ascending order of the names or
\* the descending one; a directory that is missing gives [], as an empty one
load_all_projects(dir, descending) ==
    LET names == IF descending THEN Reversed(sorted_names(DOMAIN dir))
                 ELSE sorted_names(DOMAIN dir)
    IN  [i \in 1..Len(SelectSeq(names, LAMBDA f : ends_with(f, ".json"))) |->
            dir[SelectSeq(names, LAMBDA f : ends_with(f, ".json"))[i]]]

\* lines 66-90: the score of one project
score_of(proj, query_lower, content_words) ==
    LET pid == str_lower(Get(proj, "project_id", ""))
        aliases == Get(proj, "aliases", <<>>)
        tier1 == IF \/ query_lower = pid
                    \/ str_replace(query_lower, " ", "-") = pid
                    \/ str_replace(query_lower, " ", "_") = pid
                 THEN 100 ELSE 0
        tier2 == IF \E i \in 1..Len(aliases) :
                       \/ str_in(str_lower(aliases[i]), query_lower)
                       \/ str_in(query_lower, str_lower(aliases[i]))
                 THEN 80 ELSE 0
        tier3 == IF tier1 + tier2 < 100 /\ str_in(pid, query_lower)
                 THEN 60 ELSE 0
        tier4 == Cardinality(content_words \cap ListSet(Get(proj, "tags", <<>>))) * 10
        category == str_lower(Get(proj, "category", ""))
        tier5 == IF category /= "" /\ category \in content_words
                 THEN 40 ELSE 0
        desc_words == tokenize(Get(proj, "description", "")) \ STOP_WORDS
        tier6 == Min(Cardinality(content_words \cap desc_words), 15)
    IN  tier1 + tier2 + tier3 + tier4 + tier5 + tier6

\* lines 92-97: the entries of results, in the order of the projects
RECURSIVE scored(_, _, _, _)
scored(sofar, projects, query_lower, content_words) ==
    IF projects = <<>> THEN sofar
    ELSE CHOOSE r \in
        {scored(IF s > 0
                THEN Append(sofar,
                        [project_id |-> Get(Head(projects), "project_id", ""),
                         score |-> s,
                         description |-> Get(Head(projects), "description", "")])
                ELSE sofar,
                Tail(projects), query_lower, content_words)
         : s \in {score_of(Head(projects), query_lower, content_words)}} : TRUE

result_key_less_IdDescending(a, b) ==
    \/ a.score > b.score
    \/ a.score = b.score /\ str_less(b.project_id, a.project_id)

\* line 99: key=lambda r: (-r["score"], r["project_id"]); key(a) < key(b)
result_key_less(a, b) ==
    \/ a.score > b.score
    \/ a.score = b.score /\ str_less(a.project_id, b.project_id)

\* list.sort is stable: r goes behind every entry whose key is not greater
insert_result(sorted, r) ==
    LET k == Cardinality({i \in 1..Len(sorted) : ~result_key_less(r, sorted[i])})
    IN  SubSeq(sorted, 1, k) \o <<r>> \o SubSeq(sorted, k + 1, Len(sorted))

\* results.sort(key=...)
RECURSIVE sort_results(_, _)
sort_results(sorted, results) ==
    IF results = <<>> THEN sorted
    ELSE CHOOSE r \in
        {sort_results(next, Tail(results))
         : next \in {insert_result(sorted, Head(results))}} : TRUE

auto_select_Strict(results) ==
    /\ results[1].score >= 60
    /\ Len(results) = 1 \/ results[2].score * 2 < results[1].score

\* lines 104-108: auto_select, for results that are sorted and not empty
auto_select(results) ==
    /\ results[1].score >= 60
    /\ Len(results) = 1 \/ results[2].score * 2 <= results[1].score

\* lines 101-113: what search returns for the sorted results
search_return(results) ==
    IF results = <<>> THEN [match |-> None, candidates |-> <<>>]
    ELSE [match |-> IF auto_select(results) THEN results[1].project_id ELSE None,
          candidates |-> SubSeq(results, 1, Min(8, Len(results)))]

\* search(query), over the records load_all_projects returned
search(projects, query) ==
    CHOOSE r \in
        {search_return(sort_results(<<>>,
            scored(<<>>, projects, q, tokenize(query) \ STOP_WORDS)))
         : q \in {str_strip(str_lower(query))}} : TRUE

----------------------------------------------------------------------------
(* SpecSearch: a projects directory and one search over it.                *)

MaxGames == 9      \* projects of the directory that carry the tag "game"

\* the project_id of the i-th of many small games: g01, g02, ...
GameId(i) == "g" \o CharAt(Digits, (i \div 10) + 1) \o CharAt(Digits, (i % 10) + 1)

Game(i) ==
    [project_id |-> GameId(i), tags |-> <<"game">>,
     description |-> "Small game"]

\* the records the directories are made of, by file name
ProjectPool ==
    [f \in {"food.json", "food-log.json", "panel.json", "my_app.json",
            "cities.json", "urban.json", "tax.json", "rect.json",
            "today.json", "food2.json", "notes.txt"} |->
       CASE f = "food.json" ->
               [project_id |-> "food", aliases |-> <<"Food thing">>,
                tags |-> <<"nutrition">>, category |-> "Health",
                description |-> "Track meals"]
         [] f = "food-log.json" ->
               [project_id |-> "food-log",
                description |-> "A diary of meals"]
         [] f = "panel.json" ->
               [project_id |-> "control-panel", category |-> "tools"]
         [] f = "my_app.json" ->
               [project_id |-> "my_app", description |-> "My app"]
         [] f = "cities.json" ->
               [project_id |-> "cities", aliases |-> <<"city ranking">>]
         [] f = "urban.json" ->
               [project_id |-> "urban", category |-> "City"]
         [] f = "tax.json" ->
               [project_id |-> "tax_collector",
                tags |-> <<"game", "math", "tax">>,
                description |-> "Math game about tax"]
         [] f = "rect.json" ->
               [project_id |-> "rectangles-game",
                aliases |-> <<"rectangle game">>, tags |-> <<"game", "Math">>]
         [] f = "today.json" ->
               [project_id |-> "Today", aliases |-> <<Haifa>>,
                description |-> "Plan of the day"]
         [] f = "food2.json" ->
               [project_id |-> "food", description |-> "Copy of food"]
         [] OTHER ->
               [project_id |-> "notes", tags |-> <<"game", "food">>]]

GameFiles ==
    [f \in {GameId(i) \o ".json" : i \in 1..MaxGames} |->
        Game(CHOOSE i \in 1..MaxGames : f = GameId(i) \o ".json")]

\* the directories: up to three files of the pool, with or without the games
ProjectDirs ==
    {Update([f \in S |-> ProjectPool[f]], g)
     : S \in {T \in SUBSET DOMAIN ProjectPool : Cardinality(T) <= 3},
       g \in {EmptyDict, GameFiles}}

Queries ==
    {"food", "Food Log", "food-log", "control panel", " MY APP ", "today",
     "city ranking", "game", "math game with tax", "the food thing",
     "xyzzy nonsense", Haifa, ""}

InitSearch ==
    /\ InitIOVars
    /\ procs = EmptyDict
    /\ files \in ProjectDirs

\* search(query) over PROJECTS_DIR
Search ==
    /\ ~call.made
    /\ \E query \in Queries, descending \in BOOLEAN :
          /\ result' = Ret("search", query, "ok",
                           search(load_all_projects(files, descending), query))
          /\ call' = [made |-> TRUE, query |-> query]
    /\ UNCHANGED <<team, name, engine, runLessons, clock, learned, saves,
                   atBind, newTeam, aliased, hookCalls, files, procs>>

NextSearch == Search

SpecSearch == InitSearch /\ [][NextSearch]_vars

\* the project records of the directory
Projects == {files[f] : f \in {g \in DOMAIN files : ends_with(g, ".json")}}

\* query is project_id written in any case, possibly with spaces in place
\* of "-" or "_"
NamesId(query, project_id) ==
    /\ Len(query) = Len(project_id)
    /\ \A i \in 1..Len(query) :
          \/ lower_char(CharAt(query, i)) = lower_char(CharAt(project_id, i))
          \/ CharAt(query, i) = " " /\ CharAt(project_id, i) \in {"-", "_"}

(* C36: exact project-id search.  A query equal to the project_id of some  *)
(* project of the directory, in any case and possibly with spaces written  *)
(* for "-" or "_", returns that project_id as match.                       *)
C36_ExactIdMatches ==
    result["op"] = "search" =>
       \A p \in Projects :
          NamesId(result["arg"], p["project_id"])
          => result["value"].match = p["project_id"]

\* the score the docstring gives a project for a query: what score_of
\* computes
ScoreFor(p, query) ==
    score_of(p, str_strip(str_lower(query)), tokenize(query) \ STOP_WORDS)

Candidates == result["value"].candidates

(* C37: search auto-selection.  match is not null exactly when the top     *)
(* candidate scores at least 60 and is the only candidate or the runner-up *)
(* scores at most half of it, and match is then the top candidate's        *)
(* project_id; when the runner-up scores more than half of the top score   *)
(* match is null and there is more than one candidate.                     *)
C37_AutoSelection ==
    result["op"] = "search" =>
       /\ result["value"].match /= None
          <=> /\ Candidates /= <<>>
              /\ Candidates[1].score >= 60
              /\ \/ Len(Candidates) = 1
                 \/ 2 * Candidates[2].score <= Candidates[1].score
       /\ result["value"].match /= None
          => result["value"].match = Candidates[1].project_id
       /\ \A i \in 1..Len(Candidates) :
             \E p \in Projects :
                /\ p["project_id"] = Candidates[i].project_id
                /\ ScoreFor(p, result["arg"]) = Candidates[i].score
       /\ \A p \in Projects :
             Candidates /= <<>> => ScoreFor(p, result["arg"]) <= Candidates[1].score

\* the runner-up scores exactly half of the top score and the top
\* candidate is selected
C37_Witness ==
    /\ result["op"] = "search"
    /\ Len(Candidates) = 2
    /\ Candidates[1].score = 80 /\ Candidates[2].score = 40
    /\ result["value"].match = "cities"

(* C38: search candidate list.  search() returns at most 8 candidates,     *)
(* each with a score above 0, sorted by score descending and, among equal  *)
(* scores, by project_id ascending; when no project scores above 0 it      *)
(* returns match = null and no candidate.                                  *)
C38_CandidateList ==
    result["op"] = "search" =>
       /\ Len(Candidates) <= 8
       /\ \A i \in 1..Len(Candidates) : Candidates[i].score > 0
       /\ \A i, j \in 1..Len(Candidates) :
             i < j => \/ Candidates[i].score > Candidates[j].score
                      \/ /\ Candidates[i].score = Candidates[j].score
                         /\ ~str_less(Candidates[j].project_id,
                                      Candidates[i].project_id)
       /\ (\A p \in Projects : ScoreFor(p, result["arg"]) = 0)
          => /\ result["value"].match = None
             /\ Candidates = <<>>

\* more than 8 projects score, several of them equally, and 8 are returned
C38_Witness ==
    /\ result["op"] = "search"
    /\ Cardinality({p \in Projects : ScoreFor(p, result["arg"]) > 0}) > 8
    /\ Len(Candidates) = 8
    /\ Candidates[1].score > Candidates[2].score
    /\ Candidates[2].score = Candidates[3].score

----------------------------------------------------------------------------
(* C39: experience reset is idempotent.  _reset_experience applied to the  *)
(* document create_team returned changes nothing, and create_team applied  *)
(* to that document with the same project_id and no overrides returns a    *)
(* document with the same agents section.                                  *)
C39_ResetIdempotent ==
    Returned =>
       /\ _reset_experience(newTeam) = newTeam
       /\ create_team(newTeam, call.project_id, EmptyDict, EmptyDict,
                      Today).new_team["agents"] = newTeam["agents"]

\* the clone of a source whose scout had experience of every shape: the
\* reset has acted and a second one has nothing left to change
C39_Witness ==
    /\ Returned
    /\ V(SourceAgent("scout")["experience"])["run_count"] = JInt(3)
    /\ V(NewAgent("scout")["experience"])["run_count"] = JInt(0)
    /\ V(NewAgent("scout")["experience"])["active"] = JInt(0)
    /\ V(NewAgent("scout")["experience"])["counts"]
          = JDict([a |-> JInt(0), b |-> JInt(0)])
    /\ V(NewAgent("scout")["experience"])["format_priority"]
          = JDict([pdf |-> JInt(1)])
    /\ NewAgent("scout") /= SourceAgent("scout")

----------------------------------------------------------------------------
(* SpecClone: a pipeline document whose phases have run is cloned with     *)
(* create_team for a new deployment, and the phases are then invoked on    *)
(* the clone in any order.                                                 *)

\* a document whose workers' sections carry their types, as the workers
\* read it
PlainTeam(t) ==
    [k \in DOMAIN t |->
        IF k = "agents"
        THEN [w \in DOMAIN t[k] |->
                [s \in DOMAIN t[k][w] |-> Plain(t[k][w][s])]]
        ELSE t[k]]

\* the experience of a phase that has run and was marked complete
CompletedExperience ==
    JDict([lessons_learned |-> JList(<<JLesson(1)>>),
           run_count |-> JInt(1),
           status |-> JStr("complete"),
           completed_at |-> JStr("2025-06-01T12:00:00")])

\* the configurations of the pipeline: the documented one, and the same
\* with one phase naming a worker the document does not have or declaring
\* no predecessor
CloneConfig(w, odd) ==
    IF w = "auditor" THEN JDict([source_path |-> JStr(".")])
    ELSE IF w = odd /\ w = "cleanup" THEN JDict([depends_on |-> JStr(UnknownWorker)])
    ELSE IF w = odd THEN JDict(EmptyDict)
    ELSE JDict([depends_on |-> JStr(Pred[w])])

\* source documents: the first done phases are complete
CloneSources ==
    {[project_id |-> "demo",
      universal_knowledge |-> [x |-> 1],
      agents |-> [w \in PipelineWorkers |->
         [role |-> JStr(w),
          config |-> CloneConfig(w, odd),
          experience |-> IF \E i \in 1..done : Phases[i] = w
                         THEN CompletedExperience
                         ELSE JDict(EmptyDict)]]]
     : done \in {0, 2, Len(Phases)},
       odd \in {None, "backend_splitter", "cleanup"}}

\* agent_overrides: none, a different predecessor, an experience that
\* says the phase is complete
CloneOverrides ==
    {EmptyDict,
     [cleanup |-> [config |-> JDict([depends_on |-> JStr("auditor")])]],
     [auditor |-> [experience |-> JDict([status |-> JStr("complete")])]]}

InitClone ==
    /\ \E source \in CloneSources : team = PlainTeam(source)
    /\ learned = [w \in PipelineWorkers |-> <<>>]
    /\ InitWorker

\* team = create_team(source, project_id, agent_overrides=...): the new
\* deployment works on the document returned
ClonePipeline ==
    /\ ~call.made
    /\ \E source \in CloneSources, project_id \in ProjectIds,
          agent_overrides \in CloneOverrides :
          /\ PlainTeam(source) = team
          /\ \E r \in {create_team(source, project_id, EmptyDict,
                                   agent_overrides, Today)} :
                /\ newTeam' = r.new_team
                /\ aliased' = r.aliased
                /\ team' = PlainTeam(r.new_team)
                /\ call' = [made |-> TRUE, source_team |-> source,
                            project_id |-> project_id,
                            project_meta |-> EmptyDict,
                            agent_overrides |-> agent_overrides]
                /\ result' = Ret("create_team", project_id, "ok", <<>>)
    /\ UNCHANGED <<name, engine, runLessons, clock, learned, saves, atBind>>
    /\ UNCHANGED <<hookCalls, ioVars>>

BindClone ==
    /\ call.made
    /\ name = None \/ result["op"] \in {"run", "_mark_complete"}
    /\ \E n \in PipelineWorkers : Bind(n, None)

NextClone ==
    \/ ClonePipeline
    \/ BindClone
    \/ PhaseDone
    \/ RunAuditor
    \/ RunDbArchitect
    \/ RunBackendSplitter
    \/ RunFrontendSplitter
    \/ RunCleanup

SpecClone == InitClone /\ [][NextClone]_vars

\* no worker of the document is complete, and a status the source had is ""
StartsFresh ==
    \A w \in DOMAIN Agents :
       /\ StatusOf(w) /= "complete"
       /\ "status" \in DOMAIN V(SourceAgent(w)["experience"]) => StatusOf(w) = ""

\* the document is still as create_team returned it
AsCloned == call.made /\ team = PlainTeam(newTeam)

(* C40: a cloned pipeline starts fully gated.  In the document create_team *)
(* returns no worker has status "complete", a status of the source is "";  *)
(* and as long as the document is as create_team returned it, run() of a   *)
(* phase whose depends_on names a worker of the document returns blocked   *)
(* and leaves the document as it is.                                       *)
C40_CloneStartsGated ==
    [][ /\ result'["op"] = "create_team" => StartsFresh'
        /\ (AsCloned /\ result'["op"] = "run" /\ DependsOn \in DOMAIN Agents)
           => /\ result'["status"] = "blocked"
              /\ team' = team ]_vars

\* every phase of the source was complete, and the first run of the
\* db_architect of the clone has returned blocked
C40_Witness ==
    /\ AsCloned
    /\ \A w \in PipelineWorkers :
          Get(V(SourceAgent(w)["experience"]), "status", JNull) = JStr("complete")
    /\ \A w \in PipelineWorkers : StatusOf(w) = ""
    /\ result = Ret("run", "db_architect", "blocked", <<>>)
    /\ RunCount("db_architect") = 0

====
